---- MODULE Spec2Model ----
(***************************************************************************)
(* Fleet risk intelligence: the real-time risk pipeline.                   *)
(*                                                                         *)
(*   services/websocket/main.go    Connection Hub and Client Connections   *)
(*   services/risk-engine/main.go  Batch Scanner, Alert Emitter,           *)
(*                                 Score Aggregator                        *)
(*                                                                         *)
(* The three subsystems share no state in the code (the scanner publishes  *)
(* nothing, the hub owns no table), so each has its own specification:     *)
(* SpecHub, SpecScan and SpecScore.                                        *)
(***************************************************************************)
EXTENDS Integers, Sequences, FiniteSets, TLC

(***************************************************************************)
(* Bounds of the model                                                     *)
(***************************************************************************)
\* connections that may ever be opened
NumClients == 2
\* capacity of a connection's outbound queue; the code allocates 256
\* (websocket/main.go:135), the model keeps the queue short so that the
\* drop-on-full branch is reached
SendCap == 2

Clients == 1..NumClients

\* payloads with a serial number that one publisher puts on the bus
MaxMessages == 3

\* telemetry samples that may ever be ingested
NumSamples == 2
\* LIMIT of the scanner's query; the code asks for 1000
\* (risk-engine/main.go:104), the model for as many samples as there can be,
\* so that a run goes through more than one sample
BatchLimit == 2
\* store operations that may fail, and process restarts, in one behaviour
MaxFaults == 1
\* drivers in the drivers table
NumDrivers == 2
\* the largest number of findings a driver has within the 30-day window
MaxFindings == 20
\* the largest finding count handed to calculateDriverScore on its own
MaxRiskCount == 60
\* ticks of the Score Aggregator's ticker in one behaviour
MaxTicks == 3

\* fleet_id query parameter of a connect request; "" is the absent parameter
FleetScopes == {"", "2"}
\* models.Alert.FleetID values handed to BroadcastAlert
FleetIDs == {2}

VARIABLES
  \* ---- services/websocket/main.go ----
  clients,      \* Hub.clients: the registry (set of registered connections)
  fleetID,      \* Client.fleetID
  send,         \* Client.send: buffered channel, as the sequence of queued messages
  closed,       \* whether close(client.send) has been executed
  connOpen,     \* Client.conn not yet Close()d
  handlerPC,    \* handleWebSocket: "new" | "registering" | "started"
  readerPC,     \* readPump: "off" | "reading" | "unreg" | "done"
  writerPC,     \* writePump: "off" | "run" | "coalesce" | "done"
  hubPC,        \* Hub.run: "select" | "bcast" (inside the range loop of case broadcast)
  hubMsg,       \* Hub.run: message taken from h.broadcast
  hubTodo,      \* Hub.run: connections the range loop has not visited yet
  subPC,        \* subscribeToRedis: "recv" | "send" (blocked on h.broadcast <-)
  subMsg,       \* subscribeToRedis: msg.Payload of the message just received
  mu,           \* Hub.mu: the goroutines that hold the read lock (the write
                \* lock is taken and released inside one step of Hub.run)
  health,       \* the /health handler: Nil, or the len(hub.clients) it has read
  \* history of the hub
  lastReceived, \* serial number of the payload the subscriber received last
  lastWritten,  \* per connection: serial number of the message its writer
                \* wrote last
  \* ---- services/risk-engine/main.go: Batch Scanner ----
  telemetry,    \* table telemetry_events
  riskEvents,   \* table risk_events, in insertion order
  alerts,       \* table alerts, in insertion order
  published,    \* what the risk engine has published on the event bus
  scanPC,       \* processUnprocessedTelemetry: "idle" | "next" | "risk" | "alert"
  batch,        \* events: the fetched samples not yet gone through
  risks,        \* risks: the findings of the current sample not yet gone through
  createdID,    \* risk.ID inside createRiskEvent after db.Create
  runFetched,   \* len(events) of the current run
  faults,       \* failed store operations and restarts so far
  \* history of the Batch Scanner
  scanned,      \* how often each sample was handed to AnalyzeEvent (up to 2)
  ranOnce,      \* a run has completed since the process started
  arrived,      \* a sample was ingested since the last fetch
  quietRun,     \* the current run follows a completed run with no sample
                \* ingested since that run's fetch
  prevFindings, \* number of risk_events rows when the last run completed
  handled,      \* per sample: findings of its latest classification whose
                \* createRiskEvent, and createAlert if any, have returned
  runBatch,     \* events as the current run fetched them
  runFaults,    \* kinds of the store operations that failed in the current run
  scanTick,     \* startRiskProcessing: a tick waits in ticker.C (capacity 1)
  scanRuns,     \* calls of processUnprocessedTelemetry that have not returned
  \* ---- services/risk-engine/main.go: Score Aggregator ----
  driverStatus,   \* drivers.status
  driverRisk,     \* drivers.risk_score, in tenths
  recentFindings, \* per driver: risk_events rows with created_at in the last 30
                  \* days that were not written by the scanner
  driverScores,   \* table driver_scores, by driver_id (unique index)
  scorePC,        \* updateDriverScores: "idle" | "drivers"
  scoreTodo,      \* drivers: the fetched drivers not yet gone through
  now,            \* time.Now() of the current run, in ticks
  scoreFaults,    \* failed store operations of the aggregator so far
  scoreTick,      \* startDriverScoreCalculation: a tick waits in ticker.C
  scoreRuns,      \* calls of updateDriverScores that have not returned
  \* history of the Score Aggregator
  settled,        \* per driver: "no" when its findings or status changed since
                  \* a run last went through it (or none did); else "failed"
                  \* when a store operation of that pass failed, "once" when
                  \* none did, "again" when the pass before was clean as well
  \* ---- services/risk-engine/main.go: Risk Classifier ----
  analyzer,     \* the RiskAnalyzer main() built from the environment
  sample,       \* the TelemetryEvent handed to AnalyzeEvent
  findings,     \* the []RiskEvent AnalyzeEvent returned
  analyzePC,    \* "call" before AnalyzeEvent, "returned" after it
  \* ---- services/risk-engine/main.go: calculateDriverScore ----
  counted,      \* riskCount: what the Count query put into it
  calcNow,      \* time.Now() of the call, in ticks
  computed,     \* the DriverScore calculateDriverScore returned
  calcPC,       \* "call" before calculateDriverScore, "returned" after it
  \* ---- pkg/validation/validation.go: ValidateTelemetryPayload ----
  body,         \* the request body
  response,     \* what the middleware wrote with c.JSON (status 0: nothing)
  nextRan,      \* the next handler of the chain has run
  validatePC    \* "call" before the middleware, "returned" after it

hubVars == <<clients, fleetID, send, closed, connOpen, handlerPC,
             readerPC, writerPC, hubPC, hubMsg, hubTodo, subPC, subMsg,
             mu, health, lastReceived, lastWritten>>

scanVars == <<telemetry, riskEvents, alerts, published, scanPC, batch, risks,
              createdID, runFetched, faults, scanned, ranOnce, arrived,
              quietRun, prevFindings, handled, runBatch, runFaults,
              scanTick, scanRuns>>

scoreVars == <<driverStatus, driverRisk, recentFindings, driverScores, scorePC,
               scoreTodo, now, scoreFaults, settled, scoreTick, scoreRuns>>

classVars == <<analyzer, sample, findings, analyzePC>>

calcVars == <<counted, calcNow, computed, calcPC>>

validVars == <<body, response, nextRan, validatePC>>

pureVars == <<classVars, calcVars, validVars>>

vars == <<hubVars, scanVars, scoreVars, pureVars>>

\* an optional value (a *float64 field, a value not read yet): nil, or a
\* pointer to a value (0 is a value, not nil)
Nil == << >>
Ptr(v) == << v >>
Deref(p) == p[1]

(***************************************************************************)
(* Messages                                                                *)
(***************************************************************************)
\* a serialized Message envelope, reduced to the fields a recipient could be
\* chosen by (fleet_id "" is the omitted field) and a serial number that
\* tells the payloads of one publisher apart (0: payloads that are all alike)
NoMsg == [type |-> "", fleet_id |-> "", id |-> 0]

\* the channels subscribeToRedis subscribes to
SubscribedChannels == {"risk_events", "alerts", "vehicle_updates", "driver_updates"}

\* channels other services may publish on
BusChannels == SubscribedChannels \cup {"telemetry"}

\* payloads published on the bus: an envelope without and one with fleet_id
BusPayloads ==
  { [type |-> "risk_event", fleet_id |-> "",  id |-> 0],
    [type |-> "alert",      fleet_id |-> "1", id |-> 0] }

Digit == <<"0", "1", "2", "3", "4", "5", "6", "7", "8", "9">>

\* fmt.Sprintf("%d", n)
RECURSIVE FormatUint(_)
FormatUint(n) ==
  IF n < 10 THEN Digit[n + 1]
  ELSE FormatUint(n \div 10) \o Digit[(n % 10) + 1]

\* the Message built by BroadcastAlert
AlertMessage(alertFleetID) ==
  [type |-> "alert", fleet_id |-> FormatUint(alertFleetID), id |-> 0]

\* the Message built by BroadcastRiskEvent: FleetID is left ""
RiskEventMessage ==
  [type |-> "risk_event", fleet_id |-> "", id |-> 0]

(***************************************************************************)
(* Initial state of the hub: main() has built the Hub, started hub.run and *)
(* subscribeToRedis; no connection exists yet.                             *)
(***************************************************************************)
InitHub ==
  /\ clients = {}
  /\ fleetID = [c \in Clients |-> ""]
  /\ send = [c \in Clients |-> <<>>]
  /\ closed = [c \in Clients |-> FALSE]
  /\ connOpen = [c \in Clients |-> FALSE]
  /\ handlerPC = [c \in Clients |-> "new"]
  /\ readerPC = [c \in Clients |-> "off"]
  /\ writerPC = [c \in Clients |-> "off"]
  /\ hubPC = "select"
  /\ hubMsg = NoMsg
  /\ hubTodo = {}
  /\ subPC = "recv"
  /\ subMsg = NoMsg
  /\ mu = {}
  /\ health = Nil
  /\ lastReceived = 0
  /\ lastWritten = [c \in Clients |-> 0]

(***************************************************************************)
(* handleWebSocket                                                         *)
(***************************************************************************)
\* upgrade succeeded, Client built, handler blocks on client.hub.register <- client
Connect(c, f) ==
  /\ handlerPC[c] = "new"
  /\ handlerPC' = [handlerPC EXCEPT ![c] = "registering"]
  /\ fleetID' = [fleetID EXCEPT ![c] = f]
  /\ connOpen' = [connOpen EXCEPT ![c] = TRUE]
  /\ UNCHANGED <<clients, send, closed, readerPC, writerPC,
                 hubPC, hubMsg, hubTodo, subPC, subMsg>>
  /\ UNCHANGED <<mu, health, lastReceived, lastWritten>>
  /\ UNCHANGED <<scanVars, scoreVars, pureVars>>

(***************************************************************************)
(* Hub.run                                                                 *)
(***************************************************************************)
\* case client := <-h.register; the handler then starts writePump and readPump
HubRegister(c) ==
  /\ hubPC = "select"
  /\ handlerPC[c] = "registering"
  /\ clients' = clients \cup {c}
  /\ handlerPC' = [handlerPC EXCEPT ![c] = "started"]
  /\ writerPC' = [writerPC EXCEPT ![c] = "run"]
  /\ readerPC' = [readerPC EXCEPT ![c] = "reading"]
  /\ UNCHANGED <<fleetID, send, closed, connOpen,
                 hubPC, hubMsg, hubTodo, subPC, subMsg>>
  /\ UNCHANGED <<mu, health, lastReceived, lastWritten>>
  /\ UNCHANGED <<scanVars, scoreVars, pureVars>>

\* an unregister case that forgets close(client.send)
HubUnregisterLeavesQueueOpen(c) ==
  /\ hubPC = "select"
  /\ readerPC[c] = "unreg"
  /\ clients' = clients \ {c}
  /\ readerPC' = [readerPC EXCEPT ![c] = "done"]
  /\ connOpen' = [connOpen EXCEPT ![c] = FALSE]
  /\ UNCHANGED <<fleetID, send, closed, handlerPC, writerPC,
                 hubPC, hubMsg, hubTodo, subPC, subMsg>>
  /\ UNCHANGED <<mu, health, lastReceived, lastWritten>>
  /\ UNCHANGED <<scanVars, scoreVars, pureVars>>

\* case client := <-h.unregister; readPump's deferred function then closes the socket
HubUnregister(c) ==
  /\ hubPC = "select"
  /\ readerPC[c] = "unreg"
  /\ IF c \in clients
       THEN /\ clients' = clients \ {c}
            /\ closed' = [closed EXCEPT ![c] = TRUE]
       ELSE UNCHANGED <<clients, closed>>
  /\ readerPC' = [readerPC EXCEPT ![c] = "done"]
  /\ connOpen' = [connOpen EXCEPT ![c] = FALSE]
  /\ UNCHANGED <<fleetID, send, handlerPC, writerPC,
                 hubPC, hubMsg, hubTodo, subPC, subMsg>>
  /\ UNCHANGED <<mu, health, lastReceived, lastWritten>>
  /\ UNCHANGED <<scanVars, scoreVars, pureVars>>

\* HubAcceptBus with the range loop missing one registered connection
HubAcceptBusSkipsOne ==
  /\ hubPC = "select"
  /\ subPC = "send"
  /\ hubMsg' = subMsg
  /\ hubTodo' = IF clients = {} THEN {}
                ELSE clients \ {CHOOSE c \in clients : TRUE}
  /\ hubPC' = "bcast"
  /\ subPC' = "recv"
  /\ subMsg' = NoMsg
  /\ UNCHANGED <<clients, fleetID, send, closed, connOpen,
                 handlerPC, readerPC, writerPC>>
  /\ mu' = mu \cup {"run"}
  /\ UNCHANGED <<health, lastReceived, lastWritten>>
  /\ UNCHANGED <<scanVars, scoreVars, pureVars>>

\* case message := <-h.broadcast, the sender being subscribeToRedis
HubAcceptBus ==
  /\ hubPC = "select"
  /\ subPC = "send"
  /\ hubMsg' = subMsg
  /\ hubTodo' = clients
  /\ hubPC' = "bcast"
  /\ subPC' = "recv"
  /\ subMsg' = NoMsg
  /\ UNCHANGED <<clients, fleetID, send, closed, connOpen,
                 handlerPC, readerPC, writerPC>>
  /\ mu' = mu \cup {"run"}
  /\ UNCHANGED <<health, lastReceived, lastWritten>>
  /\ UNCHANGED <<scanVars, scoreVars, pureVars>>

\* case message := <-h.broadcast, the sender being BroadcastAlert(alert)
HubAcceptAlert(alertFleetID) ==
  /\ hubPC = "select"
  /\ hubMsg' = AlertMessage(alertFleetID)
  /\ hubTodo' = clients
  /\ hubPC' = "bcast"
  /\ UNCHANGED <<clients, fleetID, send, closed, connOpen,
                 handlerPC, readerPC, writerPC, subPC, subMsg>>
  /\ mu' = mu \cup {"run"}
  /\ UNCHANGED <<health, lastReceived, lastWritten>>
  /\ UNCHANGED <<scanVars, scoreVars, pureVars>>

\* case message := <-h.broadcast, the sender being BroadcastRiskEvent(event)
HubAcceptRiskEvent ==
  /\ hubPC = "select"
  /\ hubMsg' = RiskEventMessage
  /\ hubTodo' = clients
  /\ hubPC' = "bcast"
  /\ UNCHANGED <<clients, fleetID, send, closed, connOpen,
                 handlerPC, readerPC, writerPC, subPC, subMsg>>
  /\ mu' = mu \cup {"run"}
  /\ UNCHANGED <<health, lastReceived, lastWritten>>
  /\ UNCHANGED <<scanVars, scoreVars, pureVars>>

\* HubDeliver with a plain send, client.send <- message, in place of the
\* select with a default branch: it waits for room in the queue
HubDeliverBlocking(c) ==
  /\ hubPC = "bcast"
  /\ c \in hubTodo
  /\ Len(send[c]) < SendCap
  /\ send' = [send EXCEPT ![c] = Append(@, hubMsg)]
  /\ hubTodo' = hubTodo \ {c}
  /\ UNCHANGED <<clients, closed, fleetID, connOpen, handlerPC, readerPC,
                 writerPC, hubPC, hubMsg, subPC, subMsg>>
  /\ UNCHANGED <<mu, health, lastReceived, lastWritten>>
  /\ UNCHANGED <<scanVars, scoreVars, pureVars>>

\* HubDeliver whose default branch closes the queue and leaves the
\* connection in the registry
HubDeliverClosesOnly(c) ==
  /\ hubPC = "bcast"
  /\ c \in hubTodo
  /\ IF Len(send[c]) < SendCap
       THEN /\ send' = [send EXCEPT ![c] = Append(@, hubMsg)]
            /\ UNCHANGED closed
       ELSE /\ closed' = [closed EXCEPT ![c] = TRUE]
            /\ UNCHANGED send
  /\ hubTodo' = hubTodo \ {c}
  /\ UNCHANGED <<clients, fleetID, connOpen, handlerPC, readerPC, writerPC,
                 hubPC, hubMsg, subPC, subMsg>>
  /\ UNCHANGED <<mu, health, lastReceived, lastWritten>>
  /\ UNCHANGED <<scanVars, scoreVars, pureVars>>

\* HubDeliver with the message put at the head of the queue
HubDeliverPrepends(c) ==
  /\ hubPC = "bcast"
  /\ c \in hubTodo
  /\ IF Len(send[c]) < SendCap
       THEN /\ send' = [send EXCEPT ![c] = <<hubMsg>> \o @]
            /\ UNCHANGED <<clients, closed>>
       ELSE /\ clients' = clients \ {c}
            /\ closed' = [closed EXCEPT ![c] = TRUE]
            /\ UNCHANGED send
  /\ hubTodo' = hubTodo \ {c}
  /\ UNCHANGED <<fleetID, connOpen, handlerPC, readerPC, writerPC,
                 hubPC, hubMsg, subPC, subMsg>>
  /\ UNCHANGED <<mu, health, lastReceived, lastWritten>>
  /\ UNCHANGED <<scanVars, scoreVars, pureVars>>

\* HubDeliver with an empty default branch: a full queue is passed over and
\* the connection stays registered
HubDeliverKeepsFull(c) ==
  /\ hubPC = "bcast"
  /\ c \in hubTodo
  /\ IF Len(send[c]) < SendCap
       THEN send' = [send EXCEPT ![c] = Append(@, hubMsg)]
       ELSE UNCHANGED send
  /\ hubTodo' = hubTodo \ {c}
  /\ UNCHANGED <<clients, closed, fleetID, connOpen, handlerPC, readerPC,
                 writerPC, hubPC, hubMsg, subPC, subMsg>>
  /\ UNCHANGED <<mu, health, lastReceived, lastWritten>>
  /\ UNCHANGED <<scanVars, scoreVars, pureVars>>

\* one iteration of "for client := range h.clients": the non-blocking send,
\* and on default the removal from the registry and the close of the queue.
\* The loop looks at no field of the client but its queue.
HubDeliver(c) ==
  /\ hubPC = "bcast"
  /\ c \in hubTodo
  /\ IF Len(send[c]) < SendCap
       THEN /\ send' = [send EXCEPT ![c] = Append(@, hubMsg)]
            /\ UNCHANGED <<clients, closed>>
       ELSE /\ clients' = clients \ {c}
            /\ closed' = [closed EXCEPT ![c] = TRUE]
            /\ UNCHANGED send
  /\ hubTodo' = hubTodo \ {c}
  /\ UNCHANGED <<fleetID, connOpen, handlerPC, readerPC, writerPC,
                 hubPC, hubMsg, subPC, subMsg>>
  /\ UNCHANGED <<mu, health, lastReceived, lastWritten>>
  /\ UNCHANGED <<scanVars, scoreVars, pureVars>>

\* the range loop is over: back to the select
HubLoopEnd ==
  /\ hubPC = "bcast"
  /\ hubTodo = {}
  /\ hubPC' = "select"
  /\ hubMsg' = NoMsg
  /\ UNCHANGED <<clients, fleetID, send, closed, connOpen,
                 handlerPC, readerPC, writerPC, hubTodo, subPC, subMsg>>
  /\ mu' = mu \ {"run"}
  /\ UNCHANGED <<health, lastReceived, lastWritten>>
  /\ UNCHANGED <<scanVars, scoreVars, pureVars>>

(***************************************************************************)
(* Hub.subscribeToRedis                                                    *)
(***************************************************************************)
\* pubsub.ReceiveMessage returned a message of a subscribed channel; the
\* subscriber converts the payload and blocks on h.broadcast <-
SubscriberReceive(ch, p) ==
  /\ subPC = "recv"
  /\ ch \in SubscribedChannels
  /\ subMsg' = p
  /\ subPC' = "send"
  /\ UNCHANGED <<clients, fleetID, send, closed, connOpen,
                 handlerPC, readerPC, writerPC, hubPC, hubMsg, hubTodo>>
  /\ lastReceived' = p.id
  /\ UNCHANGED <<mu, health, lastWritten>>
  /\ UNCHANGED <<scanVars, scoreVars, pureVars>>

(***************************************************************************)
(* Client.readPump                                                         *)
(***************************************************************************)
\* a readPump whose deferred function takes its client out of the registry
\* itself before it sends the unregister request
ReaderFailRemovesItself(c) ==
  /\ readerPC[c] = "reading"
  /\ readerPC' = [readerPC EXCEPT ![c] = "unreg"]
  /\ clients' = clients \ {c}
  /\ UNCHANGED <<fleetID, send, closed, connOpen,
                 handlerPC, writerPC, hubPC, hubMsg, hubTodo, subPC, subMsg>>
  /\ UNCHANGED <<mu, health, lastReceived, lastWritten>>
  /\ UNCHANGED <<scanVars, scoreVars, pureVars>>

\* ReadMessage returned an error (peer gone, read deadline, socket closed):
\* the deferred function blocks on c.hub.unregister <- c
ReaderFail(c) ==
  /\ readerPC[c] = "reading"
  /\ readerPC' = [readerPC EXCEPT ![c] = "unreg"]
  /\ UNCHANGED <<clients, fleetID, send, closed, connOpen,
                 handlerPC, writerPC, hubPC, hubMsg, hubTodo, subPC, subMsg>>
  /\ UNCHANGED <<mu, health, lastReceived, lastWritten>>
  /\ UNCHANGED <<scanVars, scoreVars, pureVars>>

(***************************************************************************)
(* Client.writePump                                                        *)
(***************************************************************************)
\* case message, ok := <-c.send with ok: the message goes into a new frame
WriterRecv(c) ==
  /\ writerPC[c] = "run"
  /\ send[c] # <<>>
  /\ send' = [send EXCEPT ![c] = Tail(@)]
  /\ writerPC' = [writerPC EXCEPT ![c] = "coalesce"]
  /\ UNCHANGED <<clients, fleetID, closed, connOpen,
                 handlerPC, readerPC, hubPC, hubMsg, hubTodo, subPC, subMsg>>
  /\ lastWritten' = [lastWritten EXCEPT ![c] = Head(send[c]).id]
  /\ UNCHANGED <<mu, health, lastReceived>>
  /\ UNCHANGED <<scanVars, scoreVars, pureVars>>

\* n := len(c.send); the n queued messages are added to the frame; w.Close()
WriterCoalesce(c) ==
  /\ writerPC[c] = "coalesce"
  /\ send' = [send EXCEPT ![c] = <<>>]
  /\ writerPC' = [writerPC EXCEPT ![c] = "run"]
  /\ UNCHANGED <<clients, fleetID, closed, connOpen,
                 handlerPC, readerPC, hubPC, hubMsg, hubTodo, subPC, subMsg>>
  /\ lastWritten' = [lastWritten EXCEPT ![c] =
       IF send[c] = << >> THEN @ ELSE send[c][Len(send[c])].id]
  /\ UNCHANGED <<mu, health, lastReceived>>
  /\ UNCHANGED <<scanVars, scoreVars, pureVars>>

\* case message, ok := <-c.send with !ok (queue closed and drained): close
\* frame, return; the deferred function closes the socket
WriterQueueClosed(c) ==
  /\ writerPC[c] = "run"
  /\ send[c] = <<>>
  /\ closed[c]
  /\ writerPC' = [writerPC EXCEPT ![c] = "done"]
  /\ connOpen' = [connOpen EXCEPT ![c] = FALSE]
  /\ UNCHANGED <<clients, fleetID, send, closed,
                 handlerPC, readerPC, hubPC, hubMsg, hubTodo, subPC, subMsg>>
  /\ UNCHANGED <<mu, health, lastReceived, lastWritten>>
  /\ UNCHANGED <<scanVars, scoreVars, pureVars>>

\* NextWriter, w.Close or the ping write returned an error: return; the
\* deferred function closes the socket (the registry is not touched)
WriterFail(c) ==
  /\ writerPC[c] \in {"run", "coalesce"}
  /\ writerPC' = [writerPC EXCEPT ![c] = "done"]
  /\ connOpen' = [connOpen EXCEPT ![c] = FALSE]
  /\ UNCHANGED <<clients, fleetID, send, closed,
                 handlerPC, readerPC, hubPC, hubMsg, hubTodo, subPC, subMsg>>
  /\ UNCHANGED <<mu, health, lastReceived, lastWritten>>
  /\ UNCHANGED <<scanVars, scoreVars, pureVars>>

(***************************************************************************)
(* setupWebSocketRoutes: GET /health                                       *)
(***************************************************************************)
\* a request is served on its own goroutine: the handler evaluates
\* len(hub.clients); it calls neither h.mu.RLock nor h.mu.Lock
HealthRead ==
  /\ health = Nil
  /\ health' = Ptr(Cardinality(clients))
  /\ UNCHANGED <<clients, fleetID, send, closed, connOpen, handlerPC, readerPC,
                 writerPC, hubPC, hubMsg, hubTodo, subPC, subMsg,
                 mu, lastReceived, lastWritten>>
  /\ UNCHANGED <<scanVars, scoreVars, pureVars>>

\* c.JSON writes the response and the handler returns
HealthRespond ==
  /\ health # Nil
  /\ health' = Nil
  /\ mu' = mu \ {"health"}
  /\ UNCHANGED <<clients, fleetID, send, closed, connOpen, handlerPC, readerPC,
                 writerPC, hubPC, hubMsg, hubTodo, subPC, subMsg,
                 lastReceived, lastWritten>>
  /\ UNCHANGED <<scanVars, scoreVars, pureVars>>

NextHub ==
  \/ \E c \in Clients, f \in FleetScopes : Connect(c, f)
  \/ \E c \in Clients : HubRegister(c)
  \/ \E c \in Clients : HubUnregister(c)
  \/ HubAcceptBus
  \/ \E a \in FleetIDs : HubAcceptAlert(a)
  \/ HubAcceptRiskEvent
  \/ \E c \in Clients : HubDeliver(c)
  \/ HubLoopEnd
  \/ \E ch \in BusChannels, p \in BusPayloads : SubscriberReceive(ch, p)
  \/ \E c \in Clients : ReaderFail(c)
  \/ \E c \in Clients : WriterRecv(c)
  \/ \E c \in Clients : WriterCoalesce(c)
  \/ \E c \in Clients : WriterQueueClosed(c)
  \/ \E c \in Clients : WriterFail(c)

(***************************************************************************)
(* services/risk-engine/main.go: Risk Classifier                           *)
(***************************************************************************)
\* an absent optional field (nil pointer, NULL column)
Null == 0

\* RiskAnalyzer thresholds as main() sets them when the environment gives none
SpeedThreshold == 80
AccelerationThreshold == 4
BrakingThreshold == -6

\* the RiskAnalyzer main() builds when no threshold variable is set
DefaultAnalyzer ==
  [ SpeedThreshold        |-> SpeedThreshold,
    AccelerationThreshold |-> AccelerationThreshold,
    BrakingThreshold      |-> BrakingThreshold ]

\* fmt.Sprintf of the finding's description: the text and the formatted value
Description(text, value) == [text |-> text, value |-> value]

\* vehicles.driver_id: the driver assigned to the vehicle
VehicleDriver(v) == v

\* a RiskEvent literal that takes the driver of the sample's vehicle
FindingWithDriver(event, eventType, severity, riskScore, text, value) ==
  [ id          |-> 0,
    vehicle_id  |-> event.vehicle_id,
    driver_id   |-> VehicleDriver(event.vehicle_id),
    event_type  |-> eventType,
    severity    |-> severity,
    risk_score  |-> riskScore,
    timestamp   |-> event.timestamp,
    latitude    |-> event.latitude,
    longitude   |-> event.longitude,
    description |-> Description(text, value) ]

\* the RiskEvent literal the analyzer appends; ID and DriverID are not set
Finding(event, eventType, severity, riskScore, text, value) ==
  [ id          |-> 0,
    vehicle_id  |-> event.vehicle_id,
    driver_id   |-> Null,
    event_type  |-> eventType,
    severity    |-> severity,
    risk_score  |-> riskScore,
    timestamp   |-> event.timestamp,
    latitude    |-> event.latitude,
    longitude   |-> event.longitude,
    description |-> Description(text, value) ]

\* a speed analysis that puts the boundary 1.3 x threshold in the high tier
SpeedFindingsHighAtBoundary(ra, event) ==
  IF event.speed # Nil /\ Deref(event.speed) > ra.SpeedThreshold
    THEN LET speed == Deref(event.speed)
             sev == IF 10 * speed > 15 * ra.SpeedThreshold THEN "critical"
                    ELSE IF 10 * speed >= 13 * ra.SpeedThreshold THEN "high"
                    ELSE "medium"
             score == IF sev = "critical" THEN 90 ELSE IF sev = "high" THEN 75 ELSE 50
         IN << Finding(event, "speeding", sev, score,
                       "Vehicle exceeded speed limit", speed) >>
    ELSE << >>

\* speed analysis; 1.3 and 1.5 times the threshold, in tenths
SpeedFindings(ra, event) ==
  IF event.speed # Nil /\ Deref(event.speed) > ra.SpeedThreshold
    THEN LET speed == Deref(event.speed)
             sev == IF 10 * speed > 15 * ra.SpeedThreshold THEN "critical"
                    ELSE IF 10 * speed > 13 * ra.SpeedThreshold THEN "high"
                    ELSE "medium"
             score == IF sev = "critical" THEN 90 ELSE IF sev = "high" THEN 75 ELSE 50
         IN << Finding(event, "speeding", sev, score,
                       "Vehicle exceeded speed limit", speed) >>
    ELSE << >>

\* an acceleration analysis that fires on the threshold itself
AccelFindingsAtLimit(ra, event) ==
  IF event.acceleration # Nil /\ Deref(event.acceleration) >= ra.AccelerationThreshold
    THEN << Finding(event, "rapid_acceleration", "medium", 60,
                    "Harsh acceleration detected", Deref(event.acceleration)) >>
    ELSE << >>

AccelFindings(ra, event) ==
  IF event.acceleration # Nil /\ Deref(event.acceleration) > ra.AccelerationThreshold
    THEN << Finding(event, "rapid_acceleration", "medium", 60,
                    "Harsh acceleration detected", Deref(event.acceleration)) >>
    ELSE << >>

\* a braking analysis that fires on the threshold itself
BrakeFindingsAtLimit(ra, event) ==
  IF event.acceleration # Nil /\ Deref(event.acceleration) <= ra.BrakingThreshold
    THEN << Finding(event, "harsh_braking", "medium", 65,
                    "Harsh braking detected", Deref(event.acceleration)) >>
    ELSE << >>

BrakeFindings(ra, event) ==
  IF event.acceleration # Nil /\ Deref(event.acceleration) < ra.BrakingThreshold
    THEN << Finding(event, "harsh_braking", "medium", 65,
                    "Harsh braking detected", Deref(event.acceleration)) >>
    ELSE << >>

AnalyzeEvent(ra, event) ==
  SpeedFindings(ra, event) \o AccelFindings(ra, event) \o BrakeFindings(ra, event)

mapSeverityToPriority(severity) ==
  CASE severity = "critical" -> "critical"
    [] severity = "high"     -> "high"
    [] severity = "medium"   -> "medium"
    [] OTHER                 -> "low"

formatEventType(eventType) ==
  CASE eventType = "speeding"           -> "Speeding"
    [] eventType = "harsh_braking"      -> "Harsh Braking"
    [] eventType = "rapid_acceleration" -> "Rapid Acceleration"
    [] OTHER                            -> "Risk Event"

(***************************************************************************)
(* The store as the Batch Scanner sees it                                  *)
(***************************************************************************)
Samples == 1..NumSamples

\* vehicles table: vehicle -> fleet
VehicleIDs == {1, 2}
VehicleFleet(v) == IF v = 1 THEN 10 ELSE 20

\* readings the ingest service stores: nothing risky, medium speeding, high
\* speeding with harsh braking, critical speeding
SampleReadings ==
  { [speed |-> Nil,      acceleration |-> Nil,     latitude |-> Nil,
     longitude |-> Nil],
    [speed |-> Ptr(95),  acceleration |-> Nil,     latitude |-> Ptr(40),
     longitude |-> Ptr(-74)],
    [speed |-> Ptr(110), acceleration |-> Ptr(-7), latitude |-> Ptr(40),
     longitude |-> Ptr(-74)],
    [speed |-> Ptr(125), acceleration |-> Nil,     latitude |-> Ptr(40),
     longitude |-> Ptr(-74)] }

\* a row of telemetry_events that has not been inserted yet
NoSample ==
  [stored |-> FALSE, vehicle_id |-> 0, timestamp |-> 0, speed |-> Nil,
   acceleration |-> Nil, latitude |-> Nil, longitude |-> Nil,
   processed |-> FALSE, recent |-> FALSE, event_recent |-> FALSE,
   late |-> FALSE]

InitScan ==
  /\ telemetry = [s \in Samples |-> NoSample]
  /\ riskEvents = << >>
  /\ alerts = << >>
  /\ published = << >>
  /\ scanPC = "idle"
  /\ batch = << >>
  /\ risks = << >>
  /\ createdID = 0
  /\ scanned = [s \in Samples |-> 0]
  /\ faults = 0
  /\ runFetched = 0
  /\ ranOnce = FALSE
  /\ arrived = FALSE
  /\ quietRun = FALSE
  /\ prevFindings = 0
  /\ handled = [s \in Samples |-> 0]
  /\ runBatch = << >>
  /\ runFaults = {}
  /\ scanTick = FALSE
  /\ scanRuns = 0

\* the ingest service inserts the next row (ids are assigned in insertion
\* order); processed_at is NULL, created_at is now, the event time is the
\* payload's: the time of the insert, or, for a late sample, more than an
\* hour before it (the service accepts any timestamp that is not in the future)
Ingest(s, v, r, ts, late) ==
  /\ ~telemetry[s].stored
  /\ \A t \in Samples : t < s => telemetry[t].stored
  /\ \A t \in Samples : telemetry[t].stored => telemetry[t].timestamp # ts
  /\ telemetry' = [telemetry EXCEPT ![s] =
       [stored |-> TRUE, vehicle_id |-> v, timestamp |-> ts, speed |-> r.speed,
        acceleration |-> r.acceleration, latitude |-> r.latitude,
        longitude |-> r.longitude, processed |-> FALSE, recent |-> TRUE,
        event_recent |-> ~late, late |-> late]]
  /\ arrived' = TRUE
  /\ UNCHANGED <<riskEvents, alerts, published, scanPC, batch, risks, createdID,
                 scanned, faults, runFetched, ranOnce, quietRun, prevFindings, handled, runBatch, runFaults>>
  /\ UNCHANGED <<scanTick, scanRuns>>
  /\ UNCHANGED <<hubVars, scoreVars, pureVars>>

\* time passes: the row's event time is now more than an hour old, its
\* created_at is not yet (the payload's timestamp is before the insert)
EventLeavesWindow(s) ==
  /\ telemetry[s].stored
  /\ telemetry[s].event_recent
  /\ telemetry' = [telemetry EXCEPT ![s].event_recent = FALSE]
  /\ UNCHANGED <<riskEvents, alerts, published, scanPC, batch, risks, createdID,
                 scanned, faults, runFetched, ranOnce, arrived, quietRun, prevFindings, handled, runBatch, runFaults>>
  /\ UNCHANGED <<scanTick, scanRuns>>
  /\ UNCHANGED <<hubVars, scoreVars, pureVars>>

\* time passes: the row's created_at is now more than an hour old, and so is
\* its event time
LeaveWindow(s) ==
  /\ telemetry[s].stored
  /\ telemetry[s].recent
  /\ telemetry' = [telemetry EXCEPT ![s].recent = FALSE, ![s].event_recent = FALSE]
  /\ UNCHANGED <<riskEvents, alerts, published, scanPC, batch, risks, createdID,
                 scanned, faults, runFetched, ranOnce, arrived, quietRun, prevFindings, handled, runBatch, runFaults>>
  /\ UNCHANGED <<scanTick, scanRuns>>
  /\ UNCHANGED <<hubVars, scoreVars, pureVars>>

\* WHERE processed_at IS NULL AND created_at > now - 1h
Unprocessed ==
  {s \in Samples : telemetry[s].stored /\ ~telemetry[s].processed /\ telemetry[s].recent}

\* ORDER BY timestamp ASC
RECURSIVE OrderByTimestamp(_)
OrderByTimestamp(S) ==
  IF S = {} THEN << >>
  ELSE LET first == CHOOSE s \in S :
                      \A t \in S : telemetry[s].timestamp <= telemetry[t].timestamp
       IN <<first>> \o OrderByTimestamp(S \ {first})

\* LIMIT
Limit(q, n) == SubSeq(q, 1, IF Len(q) < n THEN Len(q) ELSE n)

\* the query WITHOUT its processed_at IS NULL condition
FetchQueryAll ==
  Limit(OrderByTimestamp({s \in Samples : telemetry[s].stored /\ telemetry[s].recent}),
        BatchLimit)

\* the query of processUnprocessedTelemetry
FetchQuery == Limit(OrderByTimestamp(Unprocessed), BatchLimit)

(***************************************************************************)
(* RiskEngine.processUnprocessedTelemetry, one run per tick                *)
(***************************************************************************)
\* a failed fetch that goes on with the rows of the window all the same
ScanFetchFailGoesOn ==
  /\ scanPC = "idle"
  /\ faults < MaxFaults
  /\ faults' = faults + 1
  /\ batch' = FetchQuery
  /\ runFetched' = Len(FetchQuery)
  /\ scanPC' = "next"
  /\ runBatch' = FetchQuery
  /\ runFaults' = {"fetch"}
  /\ UNCHANGED <<telemetry, riskEvents, alerts, published, risks,
                 createdID, scanned, ranOnce, arrived, quietRun, prevFindings, handled>>
  /\ scanTick' = FALSE
  /\ scanRuns' = scanRuns + 1
  /\ UNCHANGED <<hubVars, scoreVars, pureVars>>

\* the ticker fires while a run is executing: the tick waits in ticker.C,
\* whose capacity is one (a tick that finds it full is dropped)
ScanTick ==
  /\ scanPC # "idle"
  /\ scanTick' = TRUE
  /\ UNCHANGED <<telemetry, riskEvents, alerts, published, scanPC, batch, risks,
                 createdID, scanned, faults, runFetched, ranOnce, arrived,
                 quietRun, prevFindings, handled, runBatch, runFaults, scanRuns>>
  /\ UNCHANGED <<hubVars, scoreVars, pureVars>>

\* a loop that starts each run on a goroutine of its own,
\* go re.processUnprocessedTelemetry(analyzer): the waiting tick starts a run
\* while the previous one is executing
ScanFetchOnOwnGoroutine ==
  /\ scanPC = "idle" \/ scanTick
  /\ batch' = FetchQuery
  /\ runFetched' = Len(FetchQuery)
  /\ scanPC' = "next"
  /\ quietRun' = (ranOnce /\ ~arrived)
  /\ arrived' = FALSE
  /\ UNCHANGED <<telemetry, riskEvents, alerts, published, risks, createdID,
                 scanned, faults, ranOnce, prevFindings, handled>>
  /\ runBatch' = FetchQuery
  /\ runFaults' = {}
  /\ scanTick' = FALSE
  /\ scanRuns' = IF scanPC = "idle" THEN 1 ELSE 2
  /\ UNCHANGED <<hubVars, scoreVars, pureVars>>

\* the tick fires and the query succeeds
ScanFetch ==
  /\ scanPC = "idle"
  /\ batch' = FetchQuery
  /\ runFetched' = Len(FetchQuery)
  /\ scanPC' = "next"
  /\ quietRun' = (ranOnce /\ ~arrived)
  /\ arrived' = FALSE
  /\ UNCHANGED <<telemetry, riskEvents, alerts, published, risks, createdID,
                 scanned, faults, ranOnce, prevFindings, handled>>
  /\ runBatch' = FetchQuery
  /\ runFaults' = {}
  /\ scanTick' = FALSE
  /\ scanRuns' = scanRuns + 1
  /\ UNCHANGED <<hubVars, scoreVars, pureVars>>

\* the tick fires and the query fails: the run returns
ScanFetchFail ==
  /\ scanPC = "idle"
  /\ faults < MaxFaults
  /\ faults' = faults + 1
  /\ UNCHANGED <<telemetry, riskEvents, alerts, published, scanPC, batch, risks,
                 createdID, scanned, runFetched, ranOnce, arrived, quietRun, prevFindings, handled>>
  /\ runBatch' = << >>
  /\ runFaults' = {"fetch"}
  /\ scanTick' = FALSE
  /\ UNCHANGED scanRuns
  /\ UNCHANGED <<hubVars, scoreVars, pureVars>>

\* a loop body that writes processed_at before it handles the findings
ScanClassifyMarksFirst ==
  /\ scanPC = "next"
  /\ batch # << >>
  /\ risks' = AnalyzeEvent(DefaultAnalyzer, telemetry[Head(batch)])
  /\ telemetry' = [telemetry EXCEPT ![Head(batch)].processed = TRUE]
  /\ scanned' = [scanned EXCEPT ![Head(batch)] = IF @ < 2 THEN @ + 1 ELSE @]
  /\ scanPC' = "risk"
  /\ UNCHANGED <<riskEvents, alerts, published, batch, createdID,
                 faults, runFetched, ranOnce, arrived, quietRun, prevFindings,
                 runBatch, runFaults>>
  /\ handled' = [handled EXCEPT ![Head(batch)] = 0]
  /\ UNCHANGED <<scanTick, scanRuns>>
  /\ UNCHANGED <<hubVars, scoreVars, pureVars>>

\* a failed alert that gives up on the rest of the sample's findings
ScanAlertFailDropsRest ==
  /\ scanPC = "alert"
  /\ faults < MaxFaults
  /\ faults' = faults + 1
  /\ risks' = << >>
  /\ scanPC' = "risk"
  /\ UNCHANGED <<telemetry, riskEvents, alerts, published, batch, createdID,
                 scanned, runFetched, ranOnce, arrived, quietRun, prevFindings, runBatch>>
  /\ handled' = [handled EXCEPT ![Head(batch)] = @ + 1]
  /\ runFaults' = runFaults \cup {"alert"}
  /\ UNCHANGED <<scanTick, scanRuns>>
  /\ UNCHANGED <<hubVars, scoreVars, pureVars>>

\* for _, event := range events: risks := analyzer.AnalyzeEvent(&event)
ScanClassify ==
  /\ scanPC = "next"
  /\ batch # << >>
  /\ risks' = AnalyzeEvent(DefaultAnalyzer, telemetry[Head(batch)])
  /\ scanned' = [scanned EXCEPT ![Head(batch)] = IF @ < 2 THEN @ + 1 ELSE @]
  /\ scanPC' = "risk"
  /\ UNCHANGED <<telemetry, riskEvents, alerts, published, batch, createdID,
                 faults, runFetched, ranOnce, arrived, quietRun, prevFindings, runBatch, runFaults>>
  /\ handled' = [handled EXCEPT ![Head(batch)] = 0]
  /\ UNCHANGED <<scanTick, scanRuns>>
  /\ UNCHANGED <<hubVars, scoreVars, pureVars>>

\* createRiskEvent(risk) succeeds: the store assigns the row's id, which is
\* written into createRiskEvent's own copy of risk; the loop's risk keeps ID 0
ScanPersist ==
  /\ scanPC = "risk"
  /\ risks # << >>
  /\ riskEvents' = Append(riskEvents, [Head(risks) EXCEPT !.id = Len(riskEvents) + 1])
  /\ createdID' = Len(riskEvents) + 1
  /\ IF Head(risks).severity \in {"high", "critical"}
       THEN scanPC' = "alert" /\ UNCHANGED <<risks, handled>>
       ELSE /\ risks' = Tail(risks)
            /\ handled' = [handled EXCEPT ![Head(batch)] = @ + 1]
            /\ UNCHANGED scanPC
  /\ UNCHANGED <<telemetry, alerts, published, batch, scanned, faults,
                 runFetched, ranOnce, arrived, quietRun, prevFindings, runBatch, runFaults>>
  /\ UNCHANGED <<scanTick, scanRuns>>
  /\ UNCHANGED <<hubVars, scoreVars, pureVars>>

\* ScanPersistFail without the continue: the alert is attempted all the same
ScanPersistFailNoContinue ==
  /\ scanPC = "risk"
  /\ risks # << >>
  /\ faults < MaxFaults
  /\ faults' = faults + 1
  /\ IF Head(risks).severity \in {"high", "critical"}
       THEN scanPC' = "alert" /\ UNCHANGED <<risks, handled>>
       ELSE /\ risks' = Tail(risks)
            /\ handled' = [handled EXCEPT ![Head(batch)] = @ + 1]
            /\ UNCHANGED scanPC
  /\ UNCHANGED <<telemetry, riskEvents, alerts, published, batch,
                 createdID, scanned, runFetched, ranOnce, arrived, quietRun, prevFindings, runBatch>>
  /\ runFaults' = runFaults \cup {"persist"}
  /\ UNCHANGED <<scanTick, scanRuns>>
  /\ UNCHANGED <<hubVars, scoreVars, pureVars>>

\* createRiskEvent(risk) fails: logged, continue with the next risk
ScanPersistFail ==
  /\ scanPC = "risk"
  /\ risks # << >>
  /\ faults < MaxFaults
  /\ faults' = faults + 1
  /\ risks' = Tail(risks)
  /\ UNCHANGED <<telemetry, riskEvents, alerts, published, scanPC, batch,
                 createdID, scanned, runFetched, ranOnce, arrived, quietRun, prevFindings, runBatch>>
  /\ handled' = [handled EXCEPT ![Head(batch)] = @ + 1]
  /\ runFaults' = runFaults \cup {"persist"}
  /\ UNCHANGED <<scanTick, scanRuns>>
  /\ UNCHANGED <<hubVars, scoreVars, pureVars>>

\* createAlert(risk) with the vehicle found and the insert accepted
ScanAlert ==
  /\ scanPC = "alert"
  /\ alerts' = Append(alerts,
       [ id            |-> Len(alerts) + 1,
         fleet_id      |-> VehicleFleet(Head(risks).vehicle_id),
         vehicle_id    |-> Head(risks).vehicle_id,
         driver_id     |-> Head(risks).driver_id,
         risk_event_id |-> Head(risks).id,
         type          |-> "risk",
         priority      |-> mapSeverityToPriority(Head(risks).severity),
         title         |-> <<formatEventType(Head(risks).event_type), "Alert">>,
         message       |-> Head(risks).description,
         status        |-> "unread" ])
  /\ risks' = Tail(risks)
  /\ scanPC' = "risk"
  /\ UNCHANGED <<telemetry, riskEvents, published, batch, createdID, scanned,
                 faults, runFetched, ranOnce, arrived, quietRun, prevFindings, runBatch, runFaults>>
  /\ handled' = [handled EXCEPT ![Head(batch)] = @ + 1]
  /\ UNCHANGED <<scanTick, scanRuns>>
  /\ UNCHANGED <<hubVars, scoreVars, pureVars>>

\* createAlert(risk) fails (vehicle lookup or insert): logged, no alert
ScanAlertFail ==
  /\ scanPC = "alert"
  /\ faults < MaxFaults
  /\ faults' = faults + 1
  /\ risks' = Tail(risks)
  /\ scanPC' = "risk"
  /\ UNCHANGED <<telemetry, riskEvents, alerts, published, batch, createdID,
                 scanned, runFetched, ranOnce, arrived, quietRun, prevFindings, runBatch>>
  /\ handled' = [handled EXCEPT ![Head(batch)] = @ + 1]
  /\ runFaults' = runFaults \cup {"alert"}
  /\ UNCHANGED <<scanTick, scanRuns>>
  /\ UNCHANGED <<hubVars, scoreVars, pureVars>>

\* re.db.Model(&event).Update("processed_at", &now) succeeds
ScanMark ==
  /\ scanPC = "risk"
  /\ risks = << >>
  /\ telemetry' = [telemetry EXCEPT ![Head(batch)].processed = TRUE]
  /\ batch' = Tail(batch)
  /\ scanPC' = "next"
  /\ UNCHANGED <<riskEvents, alerts, published, risks, createdID, scanned,
                 faults, runFetched, ranOnce, arrived, quietRun, prevFindings, handled, runBatch, runFaults>>
  /\ UNCHANGED <<scanTick, scanRuns>>
  /\ UNCHANGED <<hubVars, scoreVars, pureVars>>

\* the update fails; its error is not looked at
ScanMarkFail ==
  /\ scanPC = "risk"
  /\ risks = << >>
  /\ faults < MaxFaults
  /\ faults' = faults + 1
  /\ batch' = Tail(batch)
  /\ scanPC' = "next"
  /\ UNCHANGED <<telemetry, riskEvents, alerts, published, risks, createdID,
                 scanned, runFetched, ranOnce, arrived, quietRun, prevFindings, handled, runBatch>>
  /\ runFaults' = runFaults \cup {"mark"}
  /\ UNCHANGED <<scanTick, scanRuns>>
  /\ UNCHANGED <<hubVars, scoreVars, pureVars>>

\* the range loop is over: the run returns to the ticker
ScanEnd ==
  /\ scanPC = "next"
  /\ batch = << >>
  /\ scanPC' = "idle"
  /\ ranOnce' = TRUE
  /\ prevFindings' = Len(riskEvents)
  /\ UNCHANGED <<telemetry, riskEvents, alerts, published, batch, risks,
                 createdID, scanned, faults, runFetched, arrived, quietRun,
                 handled, runBatch, runFaults>>
  /\ scanRuns' = scanRuns - 1
  /\ UNCHANGED scanTick
  /\ UNCHANGED <<hubVars, scoreVars, pureVars>>

\* the process is stopped in the middle of a run and started again
ScanRestart ==
  /\ scanPC # "idle"
  /\ faults < MaxFaults
  /\ faults' = faults + 1
  /\ scanPC' = "idle"
  /\ batch' = << >>
  /\ risks' = << >>
  /\ createdID' = 0
  /\ runFetched' = 0
  /\ ranOnce' = FALSE
  /\ quietRun' = FALSE
  /\ UNCHANGED <<telemetry, riskEvents, alerts, published, scanned, arrived,
                 prevFindings, handled>>
  /\ runBatch' = << >>
  /\ runFaults' = {}
  /\ scanTick' = FALSE
  /\ scanRuns' = 0
  /\ UNCHANGED <<hubVars, scoreVars, pureVars>>

NextScan ==
  \/ \E s \in Samples, v \in VehicleIDs, r \in SampleReadings, ts \in Samples,
          late \in BOOLEAN :
       Ingest(s, v, r, ts, late)
  \/ \E s \in Samples : EventLeavesWindow(s)
  \/ \E s \in Samples : LeaveWindow(s)
  \/ ScanFetch
  \/ ScanFetchFail
  \/ ScanClassify
  \/ ScanPersist
  \/ ScanPersistFail
  \/ ScanAlert
  \/ ScanAlertFail
  \/ ScanMark
  \/ ScanMarkFail
  \/ ScanEnd
  \/ ScanRestart

(***************************************************************************)
(* services/risk-engine/main.go: Score Aggregator                          *)
(***************************************************************************)
Drivers == 1..NumDrivers

\* numbers of risk_events rows a driver may have in the trailing 30 days
FindingCounts == {0, 6, MaxFindings}

\* scores are float64 in the code; the model keeps them in tenths, which
\* makes the division by 2.0 exact
Tenths(x) == 10 * x

PenaltyPerFinding == 5
FullScore == 100
MockEfficiencyScore == 85
MockTotalMiles == 1000
MockTotalTrips == 50

Max(a, b) == IF a > b THEN a ELSE b

\* a safety score without the clamp at 0
SafetyScoreUnclamped(riskCount) ==
  Tenths(FullScore) - riskCount * Tenths(PenaltyPerFinding)

\* math.Max(0, 100.0 - float64(riskCount)*5.0)
SafetyScore(riskCount) ==
  Max(0, Tenths(FullScore) - riskCount * Tenths(PenaltyPerFinding))

\* (safetyScore + efficiencyScore) / 2.0
OverallScore(riskCount) ==
  (SafetyScore(riskCount) + Tenths(MockEfficiencyScore)) \div 2

\* the DriverScore value calculateDriverScore returns: ID and DriverID are zero
calculateDriverScore(riskCount, t) ==
  [ driver_id        |-> 0,
    overall_score    |-> OverallScore(riskCount),
    safety_score     |-> SafetyScore(riskCount),
    efficiency_score |-> Tenths(MockEfficiencyScore),
    total_miles      |-> Tenths(MockTotalMiles),
    total_trips      |-> MockTotalTrips,
    risk_events      |-> riskCount,
    last_updated     |-> t ]

\* no driver_scores row for the driver
NoScore ==
  [ driver_id |-> 0, overall_score |-> 0, safety_score |-> 0,
    efficiency_score |-> 0, total_miles |-> 0, total_trips |-> 0,
    risk_events |-> 0, last_updated |-> 0 ]

\* Updates that adds the new finding count to the stored one
UpdatesAccumulating(existing, score) ==
  [f \in DOMAIN existing |->
     IF f = "risk_events" THEN existing[f] + score[f]
     ELSE IF score[f] # 0 THEN score[f] ELSE existing[f]]

\* db.Model(&existing).Updates(&score): gorm writes the fields of the struct
\* that are not the zero value of their type
Updates(existing, score) ==
  [f \in DOMAIN existing |-> IF score[f] # 0 THEN score[f] ELSE existing[f]]

InitScore ==
  /\ driverStatus = [d \in Drivers |-> "active"]
  /\ driverRisk = [d \in Drivers |-> 0]
  /\ recentFindings = [d \in Drivers |-> 0]
  /\ driverScores = [d \in Drivers |-> NoScore]
  /\ scorePC = "idle"
  /\ scoreTodo = {}
  /\ now = 1
  /\ scoreFaults = 0
  /\ settled = [d \in Drivers |-> "no"]
  /\ scoreTick = FALSE
  /\ scoreRuns = 0

\* findings of the driver are recorded, or leave the 30-day window
FindingsChange(d, n) ==
  /\ n # recentFindings[d]
  /\ recentFindings' = [recentFindings EXCEPT ![d] = n]
  /\ settled' = [settled EXCEPT ![d] = "no"]
  /\ UNCHANGED <<driverStatus, driverRisk, driverScores, scorePC, scoreTodo,
                 now, scoreFaults>>
  /\ UNCHANGED <<scoreTick, scoreRuns>>
  /\ UNCHANGED <<hubVars, scanVars, pureVars>>

\* the CRUD layer changes the driver's status
StatusChange(d, st) ==
  /\ st # driverStatus[d]
  /\ driverStatus' = [driverStatus EXCEPT ![d] = st]
  /\ settled' = [settled EXCEPT ![d] = "no"]
  /\ UNCHANGED <<driverRisk, recentFindings, driverScores, scorePC, scoreTodo,
                 now, scoreFaults>>
  /\ UNCHANGED <<scoreTick, scoreRuns>>
  /\ UNCHANGED <<hubVars, scanVars, pureVars>>

\* the ticker fires while a run is executing: the tick waits in ticker.C
ScoreTick ==
  /\ scorePC # "idle"
  /\ scoreTick' = TRUE
  /\ UNCHANGED <<driverStatus, driverRisk, recentFindings, driverScores, scorePC,
                 scoreTodo, now, scoreFaults, settled, scoreRuns>>
  /\ UNCHANGED <<hubVars, scanVars, pureVars>>

\* the tick fires; Where("status = ?", "active").Find(&drivers) succeeds
ScoreFetch ==
  /\ scorePC = "idle"
  /\ now < MaxTicks
  /\ now' = now + 1
  /\ scoreTodo' = {d \in Drivers : driverStatus[d] = "active"}
  /\ scorePC' = "drivers"
  /\ UNCHANGED <<driverStatus, driverRisk, recentFindings, driverScores,
                 scoreFaults, settled>>
  /\ scoreTick' = FALSE
  /\ scoreRuns' = scoreRuns + 1
  /\ UNCHANGED <<hubVars, scanVars, pureVars>>

\* the tick fires and the query fails: the run returns
ScoreFetchFail ==
  /\ scorePC = "idle"
  /\ now < MaxTicks
  /\ scoreFaults < MaxFaults
  /\ now' = now + 1
  /\ scoreFaults' = scoreFaults + 1
  /\ UNCHANGED <<driverStatus, driverRisk, recentFindings, driverScores,
                 scorePC, scoreTodo, settled>>
  /\ scoreTick' = FALSE
  /\ UNCHANGED scoreRuns
  /\ UNCHANGED <<hubVars, scanVars, pureVars>>

\* Where("driver_id = ? AND created_at > ?", driverID, thirtyDaysAgo).Count:
\* the rows of the driver that other writers put into risk_events, and the
\* rows of the scanner that carry the driver's id
CountRiskEvents(d) ==
  recentFindings[d]
    + Cardinality({i \in 1..Len(riskEvents) : riskEvents[i].driver_id = d})

\* one iteration of "for _, driver := range drivers".  Each store operation
\* of the body succeeds or fails:
\*   countOK  the Count query of calculateDriverScore (on failure riskCount
\*            keeps its zero value; the error is not looked at)
\*   cacheOK  Update("risk_score", score.OverallScore) on the driver
\*   firstOK  First(&existingScore) runs (it then finds the row or reports
\*            that there is none; on failure result.Error is set as well)
\*   writeOK  the Create or the Updates
ScoreDriver(d, countOK, cacheOK, firstOK, writeOK) ==
  /\ scorePC = "drivers"
  /\ d \in scoreTodo
  /\ LET failures == (IF countOK THEN 0 ELSE 1) + (IF cacheOK THEN 0 ELSE 1)
                     + (IF firstOK THEN 0 ELSE 1) + (IF writeOK THEN 0 ELSE 1)
         riskCount == IF countOK THEN CountRiskEvents(d) ELSE 0
         score     == calculateDriverScore(riskCount, now)
         exists    == driverScores[d].driver_id # 0
         found     == firstOK /\ exists
     IN /\ scoreFaults + failures <= MaxFaults
        /\ scoreFaults' = scoreFaults + failures
        /\ driverRisk' = IF cacheOK
                           THEN [driverRisk EXCEPT ![d] = score.overall_score]
                           ELSE driverRisk
        /\ driverScores' =
             IF ~writeOK THEN driverScores
             ELSE IF found
               THEN [driverScores EXCEPT ![d] = Updates(@, score)]
             ELSE IF exists
               THEN driverScores    \* Create hits the unique index on driver_id
             ELSE [driverScores EXCEPT ![d] = [score EXCEPT !.driver_id = d]]
        /\ settled' = [settled EXCEPT ![d] =
             IF failures # 0 THEN "failed"
             ELSE IF @ \in {"once", "again"} THEN "again" ELSE "once"]
  /\ scoreTodo' = scoreTodo \ {d}
  /\ UNCHANGED <<driverStatus, recentFindings, scorePC, now>>
  /\ UNCHANGED <<scoreTick, scoreRuns>>
  /\ UNCHANGED <<hubVars, scanVars, pureVars>>

\* the range loop is over: the run returns to the ticker
ScoreEnd ==
  /\ scorePC = "drivers"
  /\ scoreTodo = {}
  /\ scorePC' = "idle"
  /\ UNCHANGED <<driverStatus, driverRisk, recentFindings, driverScores,
                 scoreTodo, now, scoreFaults, settled>>
  /\ scoreRuns' = scoreRuns - 1
  /\ UNCHANGED scoreTick
  /\ UNCHANGED <<hubVars, scanVars, pureVars>>

NextScore ==
  \/ \E d \in Drivers, n \in FindingCounts : FindingsChange(d, n)
  \/ \E d \in Drivers, st \in {"active", "inactive"} : StatusChange(d, st)
  \/ ScoreFetch
  \/ ScoreFetchFail
  \/ \E d \in Drivers, countOK, cacheOK, firstOK, writeOK \in BOOLEAN :
       ScoreDriver(d, countOK, cacheOK, firstOK, writeOK)
  \/ ScoreEnd

(***************************************************************************)
(* Risk Classifier: AnalyzeEvent applied to one sample                     *)
(***************************************************************************)
\* threshold configurations: getEnvAsFloat reads SPEED_THRESHOLD,
\* ACCEL_THRESHOLD and BRAKING_THRESHOLD independently of each other and
\* accepts any number that parses
SpeedThresholds == {SpeedThreshold, 60}
AccelerationThresholds == {AccelerationThreshold, -8}
BrakingThresholds == {BrakingThreshold, -3}

Analyzers ==
  [ SpeedThreshold        : SpeedThresholds,
    AccelerationThreshold : AccelerationThresholds,
    BrakingThreshold      : BrakingThresholds ]

\* values of TelemetryEvent.Speed and .Acceleration: absent, and values on
\* and next to every tier boundary of the configurations above
SpeedValues ==
  {Nil} \cup {Ptr(v) : v \in {0, 60, 61, 78, 79, 80, 81, 90, 91, 104, 105, 120, 121, 125}}
AccelerationValues ==
  {Nil} \cup {Ptr(v) : v \in {-9, -8, -7, -6, -5, -3, -2, 0, 3, 4, 5, 6, 7}}

TelemetryEvents ==
  [ vehicle_id   : VehicleIDs,
    timestamp    : {1, 2},
    latitude     : {Nil, Ptr(40)},
    longitude    : {Nil, Ptr(-74)},
    speed        : SpeedValues,
    acceleration : AccelerationValues ]

\* no classifier call under way
IdleAnalyze ==
  /\ analyzer = DefaultAnalyzer
  /\ sample = [vehicle_id |-> 1, timestamp |-> 1, latitude |-> Nil,
              longitude |-> Nil, speed |-> Nil, acceleration |-> Nil]
  /\ findings = << >>
  /\ analyzePC = "returned"

\* the engine was started with some configuration and is about to classify
\* some sample
InitAnalyze ==
  /\ analyzer \in Analyzers
  /\ sample \in TelemetryEvents
  /\ findings = << >>
  /\ analyzePC = "call"

\* risks := analyzer.AnalyzeEvent(&event)
Analyze ==
  /\ analyzePC = "call"
  /\ findings' = AnalyzeEvent(analyzer, sample)
  /\ analyzePC' = "returned"
  /\ UNCHANGED <<analyzer, sample>>
  /\ UNCHANGED <<hubVars, scanVars, scoreVars, calcVars, validVars>>

NextAnalyze == Analyze

(***************************************************************************)
(* calculateDriverScore applied to one finding count                       *)
(***************************************************************************)
\* what Count can put into riskCount: the number of rows, never negative
RiskCounts == 0..MaxRiskCount

\* no score computation under way
IdleCalculate ==
  /\ counted = 0
  /\ calcNow = 1
  /\ computed = NoScore
  /\ calcPC = "returned"

\* the aggregator is about to compute the score of a driver with some
\* number of findings in the window
InitCalculate ==
  /\ counted \in RiskCounts
  /\ calcNow \in 1..MaxTicks
  /\ computed = NoScore
  /\ calcPC = "call"

\* score := re.calculateDriverScore(driver.ID)
Calculate ==
  /\ calcPC = "call"
  /\ computed' = calculateDriverScore(counted, calcNow)
  /\ calcPC' = "returned"
  /\ UNCHANGED <<counted, calcNow>>
  /\ UNCHANGED <<hubVars, scanVars, scoreVars, classVars, validVars>>

NextCalculate == Calculate

(***************************************************************************)
(* ValidateTelemetryPayload applied to one request                         *)
(***************************************************************************)
\* minutes past time.Now() up to which a timestamp is accepted
MaxFutureMinutes == 5
MinLatitude == -90
MaxLatitude == 90
MinLongitude == -180
MaxLongitude == 180
MinSpeed == 0
MaxSpeed == 300
MinAcceleration == -20
MaxAcceleration == 20

validEventTypes ==
  {"location", "speed", "acceleration", "harsh_braking", "engine_status",
   "fuel_level"}

\* request bodies: wellFormed is FALSE for a body that is not JSON or whose
\* values have the wrong type; each key is absent (Nil) or has a value; the
\* timestamp is in minutes relative to time.Now()
Bodies ==
  [ wellFormed   : BOOLEAN,
    vehicle_id   : {Nil, Ptr(0), Ptr(1)},
    event_type   : {Nil, Ptr(""), Ptr("speed"), Ptr("idle")},
    timestamp    : {Nil, Ptr(-1), Ptr(MaxFutureMinutes), Ptr(MaxFutureMinutes + 1)},
    latitude     : {Nil, Ptr(MinLatitude - 1), Ptr(MinLatitude), Ptr(MaxLatitude),
                    Ptr(MaxLatitude + 1)},
    longitude    : {Nil, Ptr(MinLongitude - 1), Ptr(MinLongitude), Ptr(MaxLongitude),
                    Ptr(MaxLongitude + 1)},
    speed        : {Nil, Ptr(MinSpeed - 1), Ptr(MinSpeed), Ptr(MaxSpeed),
                    Ptr(MaxSpeed + 1)},
    acceleration : {Nil, Ptr(MinAcceleration - 1), Ptr(MinAcceleration),
                    Ptr(MaxAcceleration), Ptr(MaxAcceleration + 1)} ]

\* c.ShouldBindJSON(&payload): decoding leaves the zero value in a field whose
\* key is absent, and binding:"required" rejects a field left at its zero
\* value; the payload's timestamp is meaningful only when the binding succeeds
ShouldBindJSON(b) ==
  LET VehicleID == IF b.vehicle_id = Nil THEN 0 ELSE Deref(b.vehicle_id)
      EventType == IF b.event_type = Nil THEN "" ELSE Deref(b.event_type)
  IN [ ok           |-> /\ b.wellFormed
                        /\ VehicleID # 0
                        /\ EventType # ""
                        /\ b.timestamp # Nil,
       VehicleID    |-> VehicleID,
       EventType    |-> EventType,
       Timestamp    |-> b.timestamp,
       Latitude     |-> b.latitude,
       Longitude    |-> b.longitude,
       Speed        |-> b.speed,
       Acceleration |-> b.acceleration ]

\* a *float64 that is set and outside [lo, hi]
OutOfRange(p, lo, hi) == p # Nil /\ (Deref(p) < lo \/ Deref(p) > hi)

\* field checks that let any speed through
FieldErrorsNoSpeedCheck(payload) ==
  (IF payload.VehicleID = 0 THEN << "vehicle_id" >> ELSE << >>)
  \o (IF payload.EventType \notin validEventTypes THEN << "event_type" >> ELSE << >>)
  \o (IF Deref(payload.Timestamp) > MaxFutureMinutes THEN << "timestamp" >> ELSE << >>)
  \o (IF OutOfRange(payload.Latitude, MinLatitude, MaxLatitude)
        THEN << "latitude" >> ELSE << >>)
  \o (IF OutOfRange(payload.Longitude, MinLongitude, MaxLongitude)
        THEN << "longitude" >> ELSE << >>)
  \o (IF OutOfRange(payload.Acceleration, MinAcceleration, MaxAcceleration)
        THEN << "acceleration" >> ELSE << >>)

\* errors: the fields of the ValidationErrors appended, in order
FieldErrors(payload) ==
  (IF payload.VehicleID = 0 THEN << "vehicle_id" >> ELSE << >>)
  \o (IF payload.EventType \notin validEventTypes THEN << "event_type" >> ELSE << >>)
  \o (IF Deref(payload.Timestamp) > MaxFutureMinutes THEN << "timestamp" >> ELSE << >>)
  \o (IF OutOfRange(payload.Latitude, MinLatitude, MaxLatitude)
        THEN << "latitude" >> ELSE << >>)
  \o (IF OutOfRange(payload.Longitude, MinLongitude, MaxLongitude)
        THEN << "longitude" >> ELSE << >>)
  \o (IF OutOfRange(payload.Speed, MinSpeed, MaxSpeed) THEN << "speed" >> ELSE << >>)
  \o (IF OutOfRange(payload.Acceleration, MinAcceleration, MaxAcceleration)
        THEN << "acceleration" >> ELSE << >>)

NoResponse == [status |-> 0, error |-> "", message |-> "", errors |-> << >>]

\* no request under way
IdleValidate ==
  /\ body = [wellFormed |-> FALSE, vehicle_id |-> Nil, event_type |-> Nil,
             timestamp |-> Nil, latitude |-> Nil, longitude |-> Nil,
             speed |-> Nil, acceleration |-> Nil]
  /\ response = NoResponse
  /\ nextRan = FALSE
  /\ validatePC = "returned"

\* a request has reached the middleware
InitValidate ==
  /\ body \in Bodies
  /\ response = NoResponse
  /\ nextRan = FALSE
  /\ validatePC = "call"

\* the handler function ValidateTelemetryPayload returns
ValidateTelemetryPayload ==
  /\ validatePC = "call"
  /\ LET payload == ShouldBindJSON(body)
     IN IF ~payload.ok
          THEN /\ response' = [status |-> 400, error |-> "validation_failed",
                               message |-> "Invalid JSON payload", errors |-> << >>]
               /\ nextRan' = FALSE
          ELSE IF Len(FieldErrors(payload)) > 0
            THEN /\ response' = [status |-> 400, error |-> "validation_failed",
                                 message |-> "Validation failed",
                                 errors |-> FieldErrors(payload)]
                 /\ nextRan' = FALSE
            ELSE /\ response' = response
                 /\ nextRan' = TRUE
  /\ validatePC' = "returned"
  /\ UNCHANGED body
  /\ UNCHANGED <<hubVars, scanVars, scoreVars, classVars, calcVars>>

NextValidate == ValidateTelemetryPayload

(***************************************************************************)
(* Specifications                                                          *)
(***************************************************************************)
Init ==
  InitHub /\ InitScan /\ InitScore /\ IdleAnalyze /\ IdleCalculate /\ IdleValidate

SpecHub == Init /\ [][NextHub]_vars

\* scheduling of the hub's goroutines: every goroutine that can take a step
\* eventually does; the select of Hub.run picks among its ready cases at
\* random, so a sender waiting on h.register, h.unregister or h.broadcast is
\* eventually served although requests of the other kinds keep arriving; a
\* read on a closed socket fails, and so does a write
FairHub ==
  /\ WF_vars(HubLoopEnd)
  /\ SF_vars(HubAcceptBus)
  /\ \A c \in Clients :
       /\ WF_vars(HubDeliver(c))
       /\ SF_vars(HubRegister(c))
       /\ SF_vars(HubUnregister(c))
       /\ WF_vars(ReaderFail(c) /\ ~connOpen[c])
       /\ WF_vars(WriterFail(c) /\ ~connOpen[c])
       /\ WF_vars(WriterRecv(c))
       /\ WF_vars(WriterCoalesce(c))
       /\ WF_vars(WriterQueueClosed(c))

\* the hub with one kind of traffic: connections without a fleet scope and
\* alert payloads from the bus (Hub.run reads neither the scope nor the
\* payload, and nothing in the service calls BroadcastAlert or
\* BroadcastRiskEvent)
NextHubBusOnly ==
  \/ \E c \in Clients : Connect(c, "")
  \/ \E c \in Clients : HubRegister(c)
  \/ \E c \in Clients : HubUnregister(c)
  \/ HubAcceptBus
  \/ \E c \in Clients : HubDeliver(c)
  \/ HubLoopEnd
  \/ SubscriberReceive("alerts", [type |-> "alert", fleet_id |-> "1", id |-> 0])
  \/ \E c \in Clients : ReaderFail(c)
  \/ \E c \in Clients : WriterRecv(c)
  \/ \E c \in Clients : WriterCoalesce(c)
  \/ \E c \in Clients : WriterQueueClosed(c)
  \/ \E c \in Clients : WriterFail(c)

SpecHubFair == Init /\ [][NextHubBusOnly]_vars /\ FairHub

\* the hub and the requests to /health
NextHubHealth ==
  \/ NextHubBusOnly
  \/ HealthRead
  \/ HealthRespond

SpecHubHealth == Init /\ [][NextHubHealth]_vars

\* the payload with serial number i that a publisher puts on "alerts"
NumberedPayload(i) == [type |-> "alert", fleet_id |-> "1", id |-> i]

\* the hub with one publisher on the bus whose payloads are numbered in the
\* order in which it publishes them
NextHubOrder ==
  \/ \E c \in Clients : Connect(c, "")
  \/ \E c \in Clients : HubRegister(c)
  \/ \E c \in Clients : HubUnregister(c)
  \/ HubAcceptBus
  \/ \E c \in Clients : HubDeliver(c)
  \/ HubLoopEnd
  \/ \E i \in 1..MaxMessages :
       i = lastReceived + 1 /\ SubscriberReceive("alerts", NumberedPayload(i))
  \/ \E c \in Clients : ReaderFail(c)
  \/ \E c \in Clients : WriterRecv(c)
  \/ \E c \in Clients : WriterCoalesce(c)
  \/ \E c \in Clients : WriterQueueClosed(c)
  \/ \E c \in Clients : WriterFail(c)

SpecHubOrder == Init /\ [][NextHubOrder]_vars

SpecScan == Init /\ [][NextScan]_vars

SpecScore == Init /\ [][NextScore]_vars

\* the two periodic loops of the risk engine; they share no variable, so the
\* specification follows one loop at a time from the initial state
NextEngine ==
  \/ (InitScore /\ NextScan)
  \/ (InitScan /\ NextScore)

SpecEngine == Init /\ [][NextEngine]_vars

\* a sample of vehicle 1 with high speeding and harsh braking
RiskyReading ==
  [speed |-> Ptr(110), acceleration |-> Ptr(-7), latitude |-> Ptr(40),
   longitude |-> Ptr(-74)]

\* the two loops of the risk engine side by side, as main() starts them on
\* two goroutines, with their tickers; the store operations succeed and the
\* samples are risky ones of one vehicle, so that the product stays small
NextLoops ==
  \/ \E s \in Samples : Ingest(s, 1, RiskyReading, s, FALSE)
  \/ ScanTick
  \/ ScanFetch
  \/ ScanClassify
  \/ ScanPersist
  \/ ScanAlert
  \/ ScanMark
  \/ ScanEnd
  \/ ScoreTick
  \/ ScoreFetch
  \/ \E d \in Drivers : ScoreDriver(d, TRUE, TRUE, TRUE, TRUE)
  \/ ScoreEnd

SpecLoops == Init /\ [][NextLoops]_vars

\* the engine about to classify one sample
StartAnalyze ==
  InitHub /\ InitScan /\ InitScore /\ InitAnalyze /\ IdleCalculate /\ IdleValidate

SpecAnalyze == StartAnalyze /\ [][NextAnalyze]_vars

\* the aggregator about to compute one score
StartCalculate ==
  InitHub /\ InitScan /\ InitScore /\ IdleAnalyze /\ InitCalculate /\ IdleValidate

SpecCalculate == StartCalculate /\ [][NextCalculate]_vars

\* the ingest service about to validate one request
StartValidate ==
  InitHub /\ InitScan /\ InitScore /\ IdleAnalyze /\ IdleCalculate /\ InitValidate

SpecValidate == StartValidate /\ [][NextValidate]_vars

(***************************************************************************)
(* Connection Hub: properties                                              *)
(***************************************************************************)

\* the connection the range loop visits in this step
Visited(c) == hubPC = "bcast" /\ c \in hubTodo /\ c \notin hubTodo'

\* C1: a queued message that carries a fleet identifier sits only in the
\* queue of a connection whose scope is that fleet or is empty.
C1_FleetScopedDelivery ==
  \A c \in Clients : \A i \in 1..Len(send[c]) :
    send[c][i].fleet_id # "" => fleetID[c] \in {"", send[c][i].fleet_id}

\* C2: the visit of a connection whose queue is full removes it from the
\* registry and closes its queue in that same step, touching no other
\* connection; the visit of a connection with room appends the message and
\* keeps it registered; the loop can always take its next step and ends only
\* when every connection was visited; a writer that has returned has closed
\* its socket.
C2_VisitStep ==
  \A c \in Clients : Visited(c) =>
    /\ hubTodo' = hubTodo \ {c}
    /\ \A d \in Clients \ {c} :
         send'[d] = send[d] /\ closed'[d] = closed[d] /\ (d \in clients' <=> d \in clients)
    /\ IF Len(send[c]) >= SendCap
         THEN c \in clients /\ c \notin clients' /\ closed'[c] /\ send'[c] = send[c]
         ELSE c \in clients' /\ ~closed'[c] /\ send'[c] = Append(send[c], hubMsg)

C2_HubNeverBlocks ==
  /\ hubTodo \subseteq clients
  /\ hubPC = "bcast" =>
       /\ \A c \in hubTodo : ENABLED HubDeliver(c)
       /\ hubTodo = {} => ENABLED HubLoopEnd
  /\ \A c \in Clients : writerPC[c] = "done" => ~connOpen[c]

C2_DropOnFull ==
  /\ [][C2_VisitStep]_vars
  /\ [][hubPC = "bcast" /\ hubPC' = "select" => hubTodo = {}]_vars
  /\ []C2_HubNeverBlocks

\* a full connection has just been dropped by the broadcast (its reader never
\* asked to unregister) while the other connection got the message
C2_Witness ==
  \E c, d \in Clients :
    /\ c # d
    /\ hubPC = "bcast" /\ hubTodo = {}
    /\ closed[c] /\ c \notin clients /\ readerPC[c] = "reading"
    /\ Len(send[c]) = SendCap
    /\ d \in clients /\ send[d] # <<>> /\ send[d][Len(send[d])] = hubMsg

\* C3: the hub takes over the subscriber's payload unchanged and sets out to
\* visit every connection registered at that moment; a queue grows only by
\* the visit of its connection, and then by exactly the message being
\* broadcast; a visited connection with room always gets it; a connection
\* leaves the to-visit set only by being visited.
C3_AcceptStep ==
  (subPC = "send" /\ subPC' = "recv") =>
     hubMsg' = subMsg /\ hubTodo' = clients /\ hubPC' = "bcast"

C3_EnqueueStep ==
  \A c \in Clients :
    /\ Len(send'[c]) > Len(send[c]) =>
         Visited(c) /\ send'[c] = Append(send[c], hubMsg)
    /\ (Visited(c) /\ Len(send[c]) < SendCap) =>
         send'[c] = Append(send[c], hubMsg)
    /\ (c \in hubTodo /\ c \notin hubTodo') => (hubPC = "bcast" /\ hubPC' = "bcast")
    /\ (hubPC = "bcast" /\ hubPC' = "select") => c \notin hubTodo

C3_FanOut ==
  /\ [][C3_AcceptStep]_vars
  /\ [][C3_EnqueueStep]_vars
  /\ [](subPC = "send" => subMsg \in BusPayloads)

\* the bus alert (only the bus carries fleet "1") has been appended to the
\* queue of every one of NumClients registered connections
C3_Witness ==
  /\ hubPC = "bcast" /\ hubTodo = {}
  /\ hubMsg = [type |-> "alert", fleet_id |-> "1", id |-> 0]
  /\ clients = Clients
  /\ \A c \in Clients : send[c] # <<>> /\ send[c][Len(send[c])] = hubMsg

(***************************************************************************)
(* Batch Scanner and Alert Emitter: properties                             *)
(***************************************************************************)

\* C4: no sample is handed to the Risk Classifier more than once, whatever
\* store writes fail and wherever the process is restarted.
C4_ClassifiedAtMostOnce == \A s \in Samples : scanned[s] <= 1

\* C5: every alert's risk-finding link is the id of a persisted finding of
\* the alert's vehicle, alerts of different findings carry different links,
\* and the alert's fleet is that of the finding's vehicle.
C5_AlertLinksItsFinding ==
  /\ \A i \in 1..Len(alerts) : \E j \in 1..Len(riskEvents) :
       /\ alerts[i].risk_event_id = riskEvents[j].id
       /\ alerts[i].vehicle_id = riskEvents[j].vehicle_id
       /\ alerts[i].fleet_id = VehicleFleet(riskEvents[j].vehicle_id)
  /\ \A i, k \in 1..Len(alerts) :
       i # k => alerts[i].risk_event_id # alerts[k].risk_event_id

Severe == {"high", "critical"}

\* C6: every alert row is unread, of priority high or critical, and matches
\* a persisted finding of that severity; an alert is only ever inserted
\* right after its finding (severity high or critical) was inserted, with
\* the finding's severity as priority; there are never more alerts than
\* persisted severe findings.
C6_AlertRows ==
  /\ \A i \in 1..Len(alerts) :
       /\ alerts[i].status = "unread"
       /\ alerts[i].type = "risk"
       /\ alerts[i].priority \in Severe
       /\ \E j \in 1..Len(riskEvents) :
            /\ riskEvents[j].severity = alerts[i].priority
            /\ riskEvents[j].vehicle_id = alerts[i].vehicle_id
            /\ riskEvents[j].description = alerts[i].message
            /\ alerts[i].title = <<formatEventType(riskEvents[j].event_type), "Alert">>
  /\ Len(alerts) <= Cardinality({j \in 1..Len(riskEvents) : riskEvents[j].severity \in Severe})
  /\ scanPC = "alert" =>
       /\ risks # << >>
       /\ createdID = Len(riskEvents)
       /\ createdID >= 1
       /\ riskEvents[createdID] = [Head(risks) EXCEPT !.id = createdID]
       /\ riskEvents[createdID].severity \in Severe

C6_AlertStep ==
  alerts' # alerts =>
    /\ scanPC = "alert"
    /\ riskEvents' = riskEvents
    /\ Len(alerts') = Len(alerts) + 1
    /\ SubSeq(alerts', 1, Len(alerts)) = alerts
    /\ LET a == alerts'[Len(alerts')]
           r == riskEvents[createdID]
       IN /\ r.severity \in Severe
          /\ a.priority = r.severity
          /\ a.status = "unread"
          /\ a.vehicle_id = r.vehicle_id
          /\ a.message = r.description

C6_AlertsOnlyForSevereFindings ==
  /\ []C6_AlertRows
  /\ [][C6_AlertStep]_vars

\* an alert exists next to a persisted medium finding that has none, after a
\* store operation has failed
C6_Witness ==
  /\ Len(alerts) >= 1
  /\ \E j \in 1..Len(riskEvents) : riskEvents[j].severity = "medium"
  /\ faults >= 1
  /\ scanPC = "idle"

\* C7: once a run has returned, every persisted finding has been published
\* on risk_events and every alert on alerts.
C7_FindingsPublished ==
  scanPC = "idle" =>
    /\ \A j \in 1..Len(riskEvents) : \E k \in 1..Len(published) :
         published[k].channel = "risk_events" /\ published[k].id = riskEvents[j].id
    /\ \A i \in 1..Len(alerts) : \E k \in 1..Len(published) :
         published[k].channel = "alerts" /\ published[k].id = alerts[i].id

\* the scanner leaves the rows of telemetry_events as they are (their age
\* against the window is not a column of the row)
SamplesUntouched ==
  \A s \in Samples : telemetry[s].stored =>
    [telemetry'[s] EXCEPT !.recent = TRUE, !.event_recent = TRUE]
      = [telemetry[s] EXCEPT !.recent = TRUE, !.event_recent = TRUE]

\* a fetch that finds every sample of the window marked fetches nothing, and
\* a run that fetched nothing inserts no finding and no alert and changes no
\* sample
C9_NothingPendingStep ==
  /\ (scanPC = "idle" /\ scanPC' = "next" /\ Unprocessed = {}) =>
        (batch' = << >> /\ runFetched' = 0)
  /\ (scanPC # "idle" /\ runFetched = 0) =>
        (riskEvents' = riskEvents /\ alerts' = alerts /\ SamplesUntouched)

Scored(d) == scorePC = "drivers" /\ d \in scoreTodo /\ d \notin scoreTodo'

\* the fields of a row other than last_updated
ScoreFields(row) == [row EXCEPT !.last_updated = 0]

\* C8: when the run has gone through a driver and no store operation has
\* failed, the driver's row exists and carries the finding count, the
\* safety score and the overall score computed from the driver's count.
C8_RowStep ==
  \A d \in Drivers : (Scored(d) /\ scoreFaults' = 0) =>
    /\ driverScores'[d].driver_id = d
    /\ driverScores'[d].risk_events = recentFindings[d]
    /\ driverScores'[d].safety_score = SafetyScore(recentFindings[d])
    /\ driverScores'[d].overall_score = OverallScore(recentFindings[d])

C8_RowHoldsComputedScores == [][C8_RowStep]_vars

\* C10 as claimed: going through a driver whose findings and status have not
\* changed since the last run went through it leaves the row (but for
\* last_updated) and the driver's risk score as they are.
C10_AnyRerunStep ==
  \A d \in Drivers : (Scored(d) /\ settled[d] # "no") =>
    /\ ScoreFields(driverScores'[d]) = ScoreFields(driverScores[d])
    /\ driverRisk'[d] = driverRisk[d]

C10_CleanRerunStep ==
  \A d \in Drivers :
    (Scored(d) /\ settled[d] \in {"once", "again"} /\ scoreFaults' = scoreFaults) =>
      /\ ScoreFields(driverScores'[d]) = ScoreFields(driverScores[d])
      /\ driverRisk'[d] = driverRisk[d]

OfType(eventType) == SelectSeq(findings, LAMBDA f : f.event_type = eventType)

Abs(x) == IF x < 0 THEN -x ELSE x

\* the speed is absent or not above the limit
SpeedWithinLimit ==
  sample.speed = Nil \/ Deref(sample.speed) <= analyzer.SpeedThreshold

\* C11 as stated: with the default thresholds, a sample with speed <=
\* speedLimit and |acceleration| <= max(accelLimit, |brakeLimit|) gets an
\* empty finding list.
C11_EmptyWithinMagnitude ==
  ( /\ analyzePC = "returned"
    /\ analyzer = DefaultAnalyzer
    /\ SpeedWithinLimit
    /\ \/ sample.acceleration = Nil
       \/ Abs(Deref(sample.acceleration)) <=
            Max(analyzer.AccelerationThreshold, Abs(analyzer.BrakingThreshold)) )
  => findings = << >>

\* C11 amended: a sample with speed absent or <= speedLimit and acceleration
\* absent or within [brakeLimit, accelLimit] gets an empty finding list.
C11_EmptyWithinThresholds ==
  ( /\ analyzePC = "returned"
    /\ SpeedWithinLimit
    /\ \/ sample.acceleration = Nil
       \/ /\ Deref(sample.acceleration) <= analyzer.AccelerationThreshold
          /\ Deref(sample.acceleration) >= analyzer.BrakingThreshold )
  => findings = << >>

\* a sample exactly on the speed limit and on the acceleration limit came back
\* with no finding
C11_Witness ==
  /\ analyzePC = "returned"
  /\ analyzer = DefaultAnalyzer
  /\ sample.speed = Ptr(SpeedThreshold)
  /\ sample.acceleration = Ptr(AccelerationThreshold)
  /\ findings = << >>

\* the tier of a speed above the limit: boundaries belong to the lower tier
SpeedTier(limit, speed) ==
  IF 10 * speed > 15 * limit THEN [severity |-> "critical", risk_score |-> 90]
  ELSE IF 10 * speed > 13 * limit THEN [severity |-> "high", risk_score |-> 75]
  ELSE [severity |-> "medium", risk_score |-> 50]

\* C12: when the speed is present there is a speeding finding iff speed >
\* speedLimit, then exactly one, with severity and score critical/90 above
\* 1.5 x limit, high/75 above 1.3 x limit, medium/50 otherwise.
C12_SpeedingTiers ==
  (analyzePC = "returned" /\ sample.speed # Nil) =>
    LET speed == Deref(sample.speed)
        limit == analyzer.SpeedThreshold
        found == OfType("speeding")
    IN /\ (Len(found) >= 1) <=> (speed > limit)
       /\ Len(found) <= 1
       /\ speed > limit =>
            /\ found[1].severity = SpeedTier(limit, speed).severity
            /\ found[1].risk_score = SpeedTier(limit, speed).risk_score
       /\ 10 * speed > 15 * limit =>
            /\ found[1].severity = "critical"
            /\ found[1].risk_score = 90

\* a speed exactly on 1.3 x the limit came back as one medium finding
C12_Witness ==
  /\ analyzePC = "returned"
  /\ sample.speed # Nil
  /\ 10 * Deref(sample.speed) = 13 * analyzer.SpeedThreshold
  /\ Len(OfType("speeding")) = 1
  /\ OfType("speeding")[1].severity = "medium"
  /\ OfType("speeding")[1].risk_score = 50

\* C13: under every threshold configuration with a negative braking threshold,
\* a sample yields at most one of rapid_acceleration and harsh_braking, at
\* most one speeding finding, and so at most two findings.
C13_AtMostTwoFindings ==
  (analyzePC = "returned" /\ analyzer.BrakingThreshold < 0) =>
    /\ Len(OfType("rapid_acceleration")) + Len(OfType("harsh_braking")) <= 1
    /\ Len(OfType("speeding")) <= 1
    /\ Len(findings) <= 2

\* C14: rapid_acceleration (medium, 60) iff the acceleration is present and
\* above the limit, harsh_braking (medium, 65) iff it is present and below the
\* braking limit; absent fields skip their checks; every finding copies the
\* sample's vehicle, timestamp and location.
C14_AccelerationFindings ==
  analyzePC = "returned" =>
    LET present == sample.acceleration # Nil
        rapid == OfType("rapid_acceleration")
        harsh == OfType("harsh_braking")
    IN /\ (Len(rapid) >= 1) <=>
            (present /\ Deref(sample.acceleration) > analyzer.AccelerationThreshold)
       /\ (Len(harsh) >= 1) <=>
            (present /\ Deref(sample.acceleration) < analyzer.BrakingThreshold)
       /\ \A i \in 1..Len(rapid) :
            rapid[i].severity = "medium" /\ rapid[i].risk_score = 60
       /\ \A i \in 1..Len(harsh) :
            harsh[i].severity = "medium" /\ harsh[i].risk_score = 65
       /\ sample.speed = Nil => OfType("speeding") = << >>
       /\ ~present => rapid = << >> /\ harsh = << >>
       /\ \A i \in 1..Len(findings) :
            /\ findings[i].event_type \in
                 {"speeding", "rapid_acceleration", "harsh_braking"}
            /\ findings[i].vehicle_id = sample.vehicle_id
            /\ findings[i].timestamp = sample.timestamp
            /\ findings[i].latitude = sample.latitude
            /\ findings[i].longitude = sample.longitude

\* a sample with no speed and acceleration -7 came back as one harsh_braking
\* finding that carries the sample's location
C14_Witness ==
  /\ analyzePC = "returned"
  /\ analyzer = DefaultAnalyzer
  /\ sample.speed = Nil
  /\ sample.acceleration = Ptr(-7)
  /\ sample.latitude = Ptr(40)
  /\ Len(findings) = 1
  /\ findings[1].event_type = "harsh_braking"
  /\ findings[1].risk_score = 65
  /\ findings[1].latitude = Ptr(40)

(***************************************************************************)
(* calculateDriverScore: properties                                        *)
(***************************************************************************)
\* C15: for every finding count n >= 0 the safety score is max(0, 100 - 5n)
\* and the overall score is (safety + 85) / 2; n = 6 gives safety 70, n >= 20
\* gives safety 0, and the three scores lie in [0, 100].  Scores in tenths.
C15_ScoreFormulas ==
  calcPC = "returned" =>
    LET n == counted
        expected == IF 5 * n >= 100 THEN 0 ELSE 10 * (100 - 5 * n)
    IN /\ computed.safety_score = expected
       /\ computed.efficiency_score = 850
       /\ 2 * computed.overall_score = computed.safety_score + 850
       /\ n = 6 => computed.safety_score = 700
       /\ n >= 20 => computed.safety_score = 0
       /\ \A f \in {"safety_score", "efficiency_score", "overall_score"} :
            computed[f] >= 0 /\ computed[f] <= 1000
       /\ computed.risk_events = n

\* a count above 20 came back with safety 0 and overall 42.5
C15_Witness ==
  /\ calcPC = "returned"
  /\ counted > 20
  /\ computed.safety_score = 0
  /\ computed.overall_score = 425

(***************************************************************************)
(* ValidateTelemetryPayload: properties                                    *)
(***************************************************************************)
\* an optional field that is absent or within [lo, hi]
AbsentOrWithin(p, lo, hi) == p = Nil \/ (Deref(p) >= lo /\ Deref(p) <= hi)

\* the request the middleware is to let through
Acceptable ==
  /\ ShouldBindJSON(body).ok
  /\ body.vehicle_id # Nil /\ body.event_type # Nil /\ body.timestamp # Nil
  /\ Deref(body.vehicle_id) > 0
  /\ Deref(body.event_type) \in
       {"location", "speed", "acceleration", "harsh_braking", "engine_status",
        "fuel_level"}
  /\ Deref(body.timestamp) <= 5
  /\ AbsentOrWithin(body.latitude, -90, 90)
  /\ AbsentOrWithin(body.longitude, -180, 180)
  /\ AbsentOrWithin(body.speed, 0, 300)
  /\ AbsentOrWithin(body.acceleration, -20, 20)

\* C17: the middleware runs the next handler iff the body binds with the
\* three required fields, vehicle_id > 0, a known event_type, a timestamp at
\* most 5 minutes ahead and every optional field present in range; otherwise
\* it answers 400 "validation_failed" and the next handler does not run.
C17_PassesIffValid ==
  validatePC = "returned" =>
    /\ nextRan <=> Acceptable
    /\ nextRan => response.status = 0
    /\ ~nextRan => response.status = 400 /\ response.error = "validation_failed"

\* a request on every upper boundary was passed on
C17_Witness ==
  /\ validatePC = "returned"
  /\ nextRan
  /\ body.timestamp = Ptr(5)
  /\ body.latitude = Ptr(90)
  /\ body.longitude = Ptr(180)
  /\ body.speed = Ptr(300)
  /\ body.acceleration = Ptr(20)

(***************************************************************************)
(* Connection Hub: teardown                                                *)
(***************************************************************************)
\* the connection's reader has hit a read error, its writer a write error,
\* or a broadcast has found its queue full
Failing(c) ==
  /\ handlerPC[c] = "started"
  /\ \/ readerPC[c] \in {"unreg", "done"}
     \/ writerPC[c] = "done"
     \/ closed[c]

\* out of the registry, queue closed, socket closed, both tasks over
TornDown(c) ==
  /\ c \notin clients
  /\ closed[c]
  /\ ~connOpen[c]
  /\ readerPC[c] = "done"
  /\ writerPC[c] = "done"

\* a connection that has been registered and is out of the registry never
\* gets back in, and a torn-down connection stays torn down
C16_NoReRegistration ==
  [][\A c \in Clients :
       /\ (handlerPC[c] = "started" /\ c \notin clients) => c \notin clients'
       /\ TornDown(c) => TornDown(c)']_vars

\* C16: under fair scheduling a registered connection whose reader or writer
\* has failed, or whose queue a broadcast found full, is eventually out of
\* the registry with queue and socket closed and both tasks over, and it is
\* never registered again.
C16_EventuallyTornDown ==
  /\ \A c \in Clients : Failing(c) ~> TornDown(c)
  /\ C16_NoReRegistration

\* a connection dropped by a broadcast that found its queue full is torn down
C16_Witness ==
  \E c \in Clients :
    /\ TornDown(c)
    /\ hubPC = "bcast"
    /\ \E d \in Clients : d # c /\ d \in clients /\ Len(send[d]) = SendCap

(***************************************************************************)
(* Batch Scanner: order, local failures, failed fetch                      *)
(***************************************************************************)
\* the findings the classifier returns for a stored sample
FindingsOf(s) == AnalyzeEvent(DefaultAnalyzer, telemetry[s])

\* the sample the loop is at has been classified and its mark-processed write
\* has not been issued
InProgress == scanPC \in {"risk", "alert"}

\* the steps of one run, in order
C18_RunStep ==
  \* a sample is classified only at the top of the loop, and it is the one
  \* with the earliest event time of those the run has left
  /\ scanned' # scanned =>
       /\ scanPC = "next" /\ batch # << >>
       /\ scanned' = [scanned EXCEPT ![Head(batch)] = scanned'[Head(batch)]]
       /\ \A i \in 1..Len(batch) :
            telemetry[Head(batch)].timestamp <= telemetry[batch[i]].timestamp
  \* the loop leaves a sample only by issuing its mark-processed write, after
  \* every finding of the sample has been handled
  /\ (InProgress /\ scanPC' = "next") =>
       /\ batch' = Tail(batch)
       /\ handled[Head(batch)] = Len(FindingsOf(Head(batch)))
  \* a marker is written only by that write, for the sample the loop is at
  /\ \A s \in Samples :
       (telemetry[s].stored /\ ~telemetry[s].processed /\ telemetry'[s].processed) =>
         /\ InProgress /\ scanPC' = "next"
         /\ s = Head(batch)

\* at any point of a run, interrupted or not
C18_AnyPoint ==
  \* every marked sample has had all of its findings attempted
  /\ \A s \in Samples :
       (telemetry[s].stored /\ telemetry[s].processed) =>
         (scanned[s] >= 1 /\ handled[s] = Len(FindingsOf(s)))
  \* the samples the run has not reached are unmarked
  /\ \A i \in 1..Len(batch) :
       (i > 1 \/ ~InProgress) => ~telemetry[batch[i]].processed
  \* what the run has left is in ascending event time
  /\ \A i, j \in 1..Len(batch) :
       i < j => telemetry[batch[i]].timestamp <= telemetry[batch[j]].timestamp

\* C18: samples are classified in fetch order, a sample's mark-processed
\* write is issued after all its findings and alerts have been attempted and
\* before the next sample is classified; so at any interruption every marked
\* sample has had its findings attempted and the samples not reached are
\* unmarked.
C18_MarkAfterFindings ==
  /\ []C18_AnyPoint
  /\ [][C18_RunStep]_vars

\* a run was interrupted after its first sample, which has findings and is
\* marked, and before its second, which has a later event time and is unmarked
C18_Witness ==
  /\ scanPC = "idle" /\ ~ranOnce /\ faults = 1
  /\ \E s, t \in Samples :
       /\ telemetry[s].stored /\ telemetry[s].processed /\ handled[s] >= 1
       /\ telemetry[t].stored /\ ~telemetry[t].processed /\ telemetry[t].recent
       /\ scanned[t] = 0
       /\ telemetry[s].timestamp < telemetry[t].timestamp

\* createRiskEvent failed in this step
PersistFailed ==
  /\ scanPC = "risk" /\ risks # << >>
  /\ faults' = faults + 1 /\ scanPC' # "idle"

\* createAlert failed in this step
AlertFailed ==
  /\ scanPC = "alert"
  /\ faults' = faults + 1 /\ scanPC' # "idle"

C19_FailureStep ==
  \* the finding is dropped, no alert is attempted, the loop goes on with the
  \* remaining findings of the sample
  /\ PersistFailed =>
       /\ riskEvents' = riskEvents /\ alerts' = alerts
       /\ scanPC' = "risk"
       /\ risks' = Tail(risks) /\ batch' = batch
  \* the alert is skipped, the finding stays, the loop goes on as well
  /\ AlertFailed =>
       /\ riskEvents' = riskEvents /\ alerts' = alerts
       /\ riskEvents[Len(riskEvents)] =
            [Head(risks) EXCEPT !.id = Len(riskEvents)]
       /\ scanPC' = "risk"
       /\ risks' = Tail(risks) /\ batch' = batch
  \* the run returns only when every sample it fetched has had all of its
  \* findings handled, and has been marked unless the marking itself failed
  /\ (scanPC = "next" /\ scanPC' = "idle" /\ faults' = faults) =>
       \A i \in 1..Len(runBatch) :
         /\ handled[runBatch[i]] = Len(FindingsOf(runBatch[i]))
         /\ "mark" \notin runFaults => telemetry[runBatch[i]].processed

\* C19: a failed createRiskEvent drops that finding and attempts no alert for
\* it, a failed createAlert skips the alert and leaves the finding stored;
\* either way the remaining findings and samples of the batch are processed
\* and the sample is marked.
C19_LocalFailureGoesOn == [][C19_FailureStep]_vars

\* a run of two samples has returned with an alert failed for the first: its
\* finding is stored without an alert, and the second sample's finding is
\* stored and both samples are marked
C19_Witness ==
  /\ scanPC = "idle" /\ ranOnce
  /\ runFaults = {"alert"}
  /\ Len(runBatch) = 2
  /\ \A i \in 1..2 : telemetry[runBatch[i]].processed
  /\ Len(riskEvents) >= 2
  /\ Len(alerts) < Len(SelectSeq(riskEvents, LAMBDA f : f.severity \in {"high", "critical"}))

\* the rows of the three tables the scanner writes
ScanStore == <<telemetry, riskEvents, alerts>>

\* the rows the aggregator writes
ScoreStore == <<driverRisk, driverScores>>

C20_FetchStep ==
  \* the scanner's fetch failed: nothing classified, nothing written, the
  \* loop is back at its ticker
  /\ (scanPC = "idle" /\ faults' = faults + 1) =>
       /\ ScanStore' = ScanStore
       /\ scanned' = scanned
       /\ scanPC' = "idle"
  \* the aggregator's fetch failed: nothing written, back at its ticker
  /\ (scorePC = "idle" /\ scoreFaults' = scoreFaults + 1) =>
       /\ ScoreStore' = ScoreStore
       /\ scorePC' = "idle"
  \* a tick that fetches takes the rows from the store as it is then
  /\ (scanPC = "idle" /\ scanPC' = "next") => batch' = FetchQuery
  /\ (scorePC = "idle" /\ scorePC' = "drivers") =>
       scoreTodo' = {d \in Drivers : driverStatus[d] = "active"}

\* C20: a failed fetch of unprocessed samples ends the scanner's run with the
\* store unchanged and no sample classified; a failed fetch of active drivers
\* ends the aggregator's run with no write; both loops stay at their ticker
\* and the next tick fetches afresh.
C20_FailedFetchEndsRun ==
  /\ [][C20_FetchStep]_vars
  /\ [](scanPC = "idle" => ENABLED ScanFetch)
  /\ []((scorePC = "idle" /\ now < MaxTicks) => ENABLED ScoreFetch)

\* a fetch has failed while a sample was pending: the sample is unmarked and
\* unclassified, no finding exists, the scanner is at its ticker
C20_Witness ==
  /\ scanPC = "idle" /\ runFaults = {"fetch"}
  /\ \E s \in Unprocessed : scanned[s] = 0
  /\ riskEvents = << >> /\ alerts = << >>

(***************************************************************************)
(* The look-back window of the Batch Scanner                               *)
(***************************************************************************)
\* the unmarked samples whose event time lies in the hour before now
UnmarkedInEventWindow ==
  {s \in Samples : telemetry[s].stored /\ ~telemetry[s].processed
                      /\ telemetry[s].event_recent}

\* a sample the run may not touch: marked, or with an event time outside the
\* window when the run starts
OutsideEventWindow(s) ==
  telemetry[s].stored /\ (telemetry[s].processed \/ ~telemetry[s].event_recent)

C21_FetchStep ==
  (scanPC = "idle" /\ scanPC' = "next") =>
     /\ batch' = Limit(OrderByTimestamp(UnmarkedInEventWindow), BatchLimit)
     /\ \A s \in Samples :
          OutsideEventWindow(s) => \A i \in 1..Len(batch') : batch'[i] # s

\* C21: a run fetches exactly the unmarked samples whose event time lies in
\* the hour before the run, ordered by ascending event time and truncated to
\* the limit; a marked sample or one whose event time is outside the window
\* is not in the batch the run classifies and marks.
C21_FetchesEventWindow == [][C21_FetchStep]_vars

\* a sample unmarked after its event time left the window: it was stored with
\* its event time in the window, is unmarked and its event time is now more
\* than an hour old
LeftEventWindowUnmarked(s) ==
  /\ telemetry[s].stored /\ ~telemetry[s].late
  /\ ~telemetry[s].processed /\ ~telemetry[s].event_recent

C22_LostStep ==
  \A s \in Samples :
    LeftEventWindowUnmarked(s) /\ (\A i \in 1..Len(batch) : batch[i] # s) =>
      /\ \A i \in 1..Len(batch') : batch'[i] # s
      /\ scanned'[s] = scanned[s]
      /\ ~telemetry'[s].processed

\* C22: a sample that is unmarked when it leaves the look-back window (and is
\* not in the batch of a run in progress) is never fetched, classified or
\* marked afterwards.
C22_LostForever == [][C22_LostStep]_vars

(***************************************************************************)
(* Ownership of the connection registry                                    *)
(***************************************************************************)
\* a step of Hub.run that may insert into or remove from h.clients
HubMutation ==
  \E c \in Clients : HubRegister(c) \/ HubUnregister(c) \/ HubDeliver(c)

\* C23: every insertion into and every removal from the registry is a step
\* of the hub's dispatch loop; the connect handler, the reader, the writer
\* and the bus subscriber leave the registry as it is.
C23_OnlyHubMutatesRegistry ==
  [][ /\ clients' # clients => HubMutation
      /\ (\/ handlerPC' # handlerPC /\ ~HubMutation
          \/ readerPC' # readerPC /\ ~HubMutation
          \/ writerPC' # writerPC /\ ~HubMutation
          \/ subPC' # subPC) => clients' = clients ]_vars

\* the hub has inserted one connection and removed another on that
\* connection's unregister request
C23_Witness ==
  \E c, d \in Clients :
    /\ c \in clients /\ handlerPC[c] = "started"
    /\ d \notin clients /\ readerPC[d] = "done" /\ closed[d]

(***************************************************************************)
(* Locking of the connection registry                                      *)
(***************************************************************************)
\* the steps of Hub.run that run between h.mu.Lock() and h.mu.Unlock()
HoldsExclusiveLock == \E c \in Clients : HubRegister(c) \/ HubUnregister(c)

\* the /health handler reads the registry in this step
HealthReadsRegistry == health = Nil /\ health' # Nil

C24_Step ==
  /\ clients' # clients => HoldsExclusiveLock
  /\ HealthReadsRegistry => "health" \in mu'

\* C24: every mutation of the registry (register, unregister, the removal of
\* a connection whose queue is full) is made with the exclusive lock held,
\* and the read of the registry by the /health handler is made with the lock
\* held.
C24_RegistryAccessLocked == [][C24_Step]_vars

\* the /health handler has read the registry while the range loop of a
\* broadcast is about to remove a connection whose queue is full
C24_UnlockedReadDuringBroadcast ==
  ~ (/\ health # Nil /\ "health" \notin mu
     /\ hubPC = "bcast" /\ mu = {"run"}
     /\ \E c \in hubTodo : Len(send[c]) = SendCap)

(***************************************************************************)
(* Order of delivery to one connection                                     *)
(***************************************************************************)
\* the queue of c holds payloads in the order of their serial numbers, all of
\* them later than what the writer has written and earlier than what the hub
\* and the subscriber still hold for c
QueueInOrder(c) ==
  LET q == send[c]
  IN /\ \A i, j \in 1..Len(q) : i < j => q[i].id < q[j].id
     /\ \A i \in 1..Len(q) :
          /\ lastWritten[c] < q[i].id
          /\ q[i].id <= lastReceived
          /\ (hubPC = "bcast" /\ c \in hubTodo) => q[i].id < hubMsg.id
          /\ subPC = "send" => q[i].id < subMsg.id
     /\ (hubPC = "bcast" /\ c \in hubTodo) => lastWritten[c] < hubMsg.id
     /\ (hubPC = "bcast" /\ subPC = "send") => hubMsg.id < subMsg.id
     /\ subPC = "send" => subMsg.id = lastReceived

C25_OrderStep ==
  /\ (hubPC = "select" /\ hubPC' = "bcast") => hubMsg' = subMsg
  /\ \A c \in Clients :
       \* the queue grows by the hub's message, at its end
       /\ Len(send'[c]) > Len(send[c]) => send'[c] = Append(send[c], hubMsg)
       \* the writer writes a prefix of the queue, in the order of the queue
       /\ lastWritten'[c] # lastWritten[c] =>
            \E k \in 1..Len(send[c]) :
              /\ send'[c] = SubSeq(send[c], k + 1, Len(send[c]))
              /\ lastWritten'[c] = send[c][k].id
              /\ lastWritten'[c] > lastWritten[c]
       /\ Len(send'[c]) < Len(send[c]) => lastWritten'[c] # lastWritten[c]

\* C25: for any connection, the payloads the subscriber hands to the hub are
\* appended to the connection's queue and written to its socket by the
\* writer, also when it adds the queued messages to one frame, in the order
\* in which the subscriber received them; none is duplicated or reordered.
C25_DeliveredInOrder ==
  /\ [](\A c \in Clients : QueueInOrder(c))
  /\ [][C25_OrderStep]_vars

\* the writer of a connection has put the first payload into a frame and is
\* about to add the two queued ones to it
C25_Witness ==
  \E c \in Clients :
    /\ writerPC[c] = "coalesce"
    /\ lastWritten[c] = 1
    /\ Len(send[c]) = 2
    /\ send[c][1].id = 2 /\ send[c][2].id = 3

(***************************************************************************)
(* The denormalized risk score of a driver                                 *)
(***************************************************************************)
\* a run has gone through the driver since its findings or status last changed
WentThrough(d) == settled[d] # "no"

C26_CacheAgrees ==
  scorePC = "idle" =>
    \A d \in Drivers :
      (driverStatus[d] = "active" /\ WentThrough(d)) =>
        /\ driverScores[d].driver_id = d
        /\ driverRisk[d] = driverScores[d].overall_score

C26_InactiveStep ==
  \A d \in Drivers :
    (driverStatus[d] # "active" /\ scorePC = "idle") =>
      (driverStatus'[d] = driverStatus[d] => driverRisk'[d] = driverRisk[d])

\* C26: whenever no aggregator run is in progress, the risk-score field of
\* each active driver a run went through equals the overall score in the
\* driver's DriverScore row, whatever store writes failed during the run;
\* the risk-score field of a driver that is not active is left as it is.
C26_CacheEqualsRow ==
  /\ []C26_CacheAgrees
  /\ [][C26_InactiveStep]_vars

(***************************************************************************)
(* Registry and queues                                                     *)
(***************************************************************************)
\* the hub has inserted the connection (the handler went on to start the
\* reader and the writer)
Registered(c) == handlerPC[c] = "started"

\* a step of Hub.run in the branch that executes close(client.send)
ClosingBranch(c) ==
  \/ HubUnregister(c) /\ c \in clients
  \/ HubDeliver(c) /\ Len(send[c]) >= SendCap

C27_RegistryState ==
  \A c \in Clients :
    /\ c \in clients <=> (Registered(c) /\ ~closed[c])
    /\ c \in hubTodo => c \in clients

C27_RegistryStep ==
  \A c \in Clients :
    \* a queue is closed exactly when its connection is removed
    /\ closed'[c] # closed[c] <=> (c \in clients /\ c \notin clients')
    \* never closed twice, never reopened
    /\ ClosingBranch(c) => ~closed[c]
    /\ closed[c] => closed'[c]
    \* no send to a closed queue
    /\ Len(send'[c]) > Len(send[c]) => ~closed[c]
    \* inserted once, before the reader and the writer start, and never again
    /\ (c \notin clients /\ c \in clients') =>
         /\ handlerPC[c] = "registering" /\ ~closed[c]
         /\ readerPC[c] = "off" /\ writerPC[c] = "off"
    /\ Registered(c) => Registered(c)'

\* C27: in every reachable state of the hub a connection is in the registry
\* iff it has been registered and its queue is open; a queue is closed
\* exactly when its connection is removed and never twice, no message is
\* sent to a closed queue, a connection is inserted once, before its reader
\* and writer start, and never again after its removal.
C27_RegistryMatchesQueues ==
  /\ []C27_RegistryState
  /\ [][C27_RegistryStep]_vars

\* a connection was removed for its full queue during a broadcast while its
\* reader's unregister request is pending
C27_Witness ==
  \E c \in Clients :
    /\ readerPC[c] = "unreg"
    /\ closed[c] /\ c \notin clients
    /\ hubPC = "select"

(***************************************************************************)
(* Progress of the dispatch loop                                           *)
(***************************************************************************)
\* the dispatch loop can take its next step: inside a broadcast the visit of
\* each remaining connection, or the end of the loop; at the select every
\* request that is waiting on one of the three channels
C28_HubNeverBlocks ==
  /\ hubPC = "bcast" =>
       /\ \A c \in hubTodo : ENABLED HubDeliver(c)
       /\ hubTodo = {} => ENABLED HubLoopEnd
  /\ hubPC = "select" =>
       /\ \A c \in Clients :
            /\ handlerPC[c] = "registering" => ENABLED HubRegister(c)
            /\ readerPC[c] = "unreg" => ENABLED HubUnregister(c)
       /\ subPC = "send" => ENABLED HubAcceptBus

\* C28: the dispatch loop never blocks while it handles a request, so under
\* fair scheduling every request waiting on register, unregister or
\* broadcast is eventually accepted, and no reachable state is a deadlock.
C28_RequestsAccepted ==
  /\ []C28_HubNeverBlocks
  /\ [](ENABLED NextHubBusOnly)
  /\ \A c \in Clients :
       /\ (handlerPC[c] = "registering") ~> (handlerPC[c] = "started")
       /\ (readerPC[c] = "unreg") ~> (readerPC[c] = "done")
  /\ (subPC = "send") ~> (subPC = "recv")

\* a broadcast is about to visit a connection whose queue is full while the
\* other connection's reader waits on unregister and the subscriber waits
\* with the next payload
C28_Witness ==
  \E c, d \in Clients :
    /\ c # d
    /\ hubPC = "bcast" /\ c \in hubTodo /\ Len(send[c]) = SendCap
    /\ readerPC[d] = "unreg"
    /\ subPC = "send"

(***************************************************************************)
(* The two periodic loops                                                  *)
(***************************************************************************)
C29_OneRunEach ==
  /\ scanRuns <= 1 /\ (scanRuns = 1 <=> scanPC # "idle")
  /\ scoreRuns <= 1 /\ (scoreRuns = 1 <=> scorePC # "idle")
  \* a run of one loop can start whatever the other loop is doing
  /\ scanPC = "idle" => ENABLED ScanFetch
  /\ (scorePC = "idle" /\ now < MaxTicks) => ENABLED ScoreFetch

C29_TickStep ==
  \* a tick that fires during a run waits; the run goes on as it was
  /\ (scanTick' /\ ~scanTick) =>
       /\ scanPC # "idle"
       /\ UNCHANGED <<scanPC, batch, risks, runBatch, scanned, scanRuns,
                      telemetry, riskEvents, alerts>>
  /\ (scoreTick' /\ ~scoreTick) =>
       /\ scorePC # "idle"
       /\ UNCHANGED <<scorePC, scoreTodo, scoreRuns, driverRisk, driverScores>>
  \* a run starts only when none of its loop is in progress
  /\ scanRuns' > scanRuns => (scanPC = "idle" /\ scanRuns = 0)
  /\ scoreRuns' > scoreRuns => (scorePC = "idle" /\ scoreRuns = 0)
  \* a sample is classified by the one run in progress
  /\ \A s \in Samples : scanned'[s] # scanned[s] => (scanRuns = 1 /\ scanRuns' = 1)

\* C29: at most one scanner run and at most one aggregator run is in
\* progress at any time; a tick that fires while a run of its loop is
\* executing starts no second run, so no sample is classified by two runs
\* at once; a scanner run and an aggregator run may be in progress together.
C29_NoOverlappingRuns ==
  /\ []C29_OneRunEach
  /\ [][C29_TickStep]_vars

\* a scanner run and an aggregator run are both in the middle of their
\* loops, and a tick of each ticker has fired meanwhile
C29_Witness ==
  /\ scanPC = "risk" /\ scanTick
  /\ scorePC = "drivers" /\ scoreTodo # {} /\ scoreTick
  /\ \E d \in Drivers : d \notin scoreTodo /\ driverStatus[d] = "active"

(***************************************************************************)
(* Findings and drivers                                                    *)
(***************************************************************************)
\* C30: findings created by the scanner carry no driver id, nor do the
\* alerts derived from them, although the sample's vehicle has a driver
\* assigned; the count the aggregator takes for a driver is what it would be
\* without the scanner's rows, and with findings from the scanner only every
\* DriverScore row a run writes has safety score 100.
C30_FindingsCarryNoDriver ==
  /\ \A i \in 1..Len(riskEvents) : riskEvents[i].driver_id = Null
  /\ \A i \in 1..Len(alerts) : alerts[i].driver_id = Null
  /\ \A d \in Drivers :
       /\ CountRiskEvents(d) = recentFindings[d]
       /\ recentFindings[d] = 0
       /\ driverScores[d].driver_id = d =>
            driverScores[d].safety_score = Tenths(FullScore)
       /\ (scorePC = "drivers" /\ d \notin scoreTodo /\ driverStatus[d] = "active") =>
            /\ driverScores[d].driver_id = d
            /\ driverScores[d].safety_score = Tenths(FullScore)

\* the findings of every sample of a vehicle with an assigned driver are
\* stored, with an alert, and the aggregator's current run has written that
\* driver's row
C30_Witness ==
  \E d \in Drivers :
    /\ \E i \in 1..Len(riskEvents) : VehicleDriver(riskEvents[i].vehicle_id) = d
    /\ \E i \in 1..Len(alerts) : VehicleDriver(alerts[i].vehicle_id) = d
    /\ Len(riskEvents) = 2 * NumSamples
    /\ scorePC = "drivers" /\ d \notin scoreTodo
    /\ driverScores[d].last_updated = now
    /\ driverScores[d].safety_score = Tenths(FullScore)

====
